---------------------------- MODULE Spec2Model ----------------------------
(***************************************************************************)
(* PPODtottl: conversion of the California PPOD workbook into an RDF graph.*)
(* The module models creategraph() of src/PPODtottl.py as a state machine: *)
(* the vocabulary dictionaries are built, their labels and the predicate   *)
(* labels are added to the graph, and then the sheets are ingested row by  *)
(* row through addtriple().                                                *)
(*                                                                         *)
(* Text.  A cell of a sheet, a label and a dictionary key is a sequence of *)
(* one-character strings (<<"A", ",", "B">> is the Python str "A,B"), so   *)
(* that split, strip, concatenation and the checksum work on characters.   *)
(* A URI or a literal stored in the graph is a TLC string; Str() converts. *)
(* A Python dict is the sequence of its <<key, value>> items in insertion  *)
(* order.  A Python tuple t is a TLA+ tuple, t[i] being Python's t[i-1].   *)
(***************************************************************************)
EXTENDS Integers, Sequences, FiniteSets, TLC

(***************************************************************************)
(* Bounds of the model.                                                    *)
(***************************************************************************)
\* rows of the workbook that carry data, over all of its sheets
MaxRows == 2
\* comma-separated pieces of a generated cell
MaxPieces == 2
\* characters of a text handed to makeid on its own
MaxLen == 3

(***************************************************************************)
(* Namespaces (lines 31-35).                                               *)
(***************************************************************************)
auxprefix == "https://raw.githubusercontent.com/adhollander/FSLschemas/main/CA_PPODterms.ttl#"
rdfsuri == "http://www.w3.org/2000/01/rdf-schema#"
rdfuri == "http://www.w3.org/1999/02/22-rdf-syntax-ns#"
fslsprefix == "https://raw.githubusercontent.com/adhollander/FSLschemas/main/fsisupp.owl#"
dctermsuri == "http://purl.org/dc/terms/title/"

(***************************************************************************)
(* The class URIs, the predicate dictionaries of the sheets and the use    *)
(* cases (lines 42-276), item by item in source order.                     *)
(***************************************************************************)
PPODrefs ==
  << <<"Organizations", "http://xmlns.com/foaf/0.1/Organization">>,
     <<"Projects", "http://vivoweb.org/ontology/core#Project">>,
     <<"Programs", "http://vivoweb.org/ontology/core#Program">>,
     <<"People", "http://xmlns.com/foaf/0.1/Person">>,
     <<"Guidelines_Mandates", "http://www.sdsconsortium.org/schemas/sds-okn.owl#BestPracticesAndMandates">>,
     <<"Datasets", "http://vivoweb.org/ontology/core#Dataset">>,
     <<"Tools", "http://www.sdsconsortium.org/schemas/sds-okn.owl#Tool">>,
     <<"Issues (Integrated)", "https://raw.githubusercontent.com/adhollander/FSLschemas/main/sustsource.owl#IntegratedIssue">>,
     <<"Issues (Component)", "https://raw.githubusercontent.com/adhollander/FSLschemas/main/sustsource.owl#ComponentIssue">> >>

orgpred ==
  << <<"Organization", <<"d", "http://purl.org/dc/terms/title", "title", "", "s">>>>,
     <<"Alias", <<"d", "http://www.w3.org/2004/02/skos/core#altLabel", "alias", "", "s">>>>,
     <<"isPartOf", <<"o", "http://purl.org/dc/terms/isPartOf", "is part of", "org", "m">>>>,
     <<"isMemberOf", <<"o", "http://www.w3.org/ns/org#memberOf", "is member of", "org", "m">>>>,
     <<"County", <<"v", "https://raw.githubusercontent.com/adhollander/FSLschemas/main/fsisupp.owl#inCounty", "in county", "countydict", "m">>>>,
     <<"Ecoregion", <<"v", "https://raw.githubusercontent.com/adhollander/FSLschemas/main/fsisupp.owl#inEcoregion", "in ecoregion", "ecoregiondict", "m">>>>,
     <<"hasGeography", <<"v", "https://raw.githubusercontent.com/adhollander/FSLschemas/main/fsisupp.owl#assocGeo", "associated geography", "geofeaturedict", "m">>>>,
     <<"hasOrgType", <<"v", "http://www.w3.org/ns/org#classification", "organization type", "orgtypedict", "m">>>>,
     <<"Partners", <<"o", "http://vivoweb.org/ontology/core#hasCollaborator", "has partner", "org", "m">>>>,
     <<"Funding", <<"o", "http://purl.org/cerif/frapo/isFundedBy", "is funded by", "org", "m">>>>,
     <<"hasOrgActivity", <<"v", "http://purl.obolibrary.org/obo/RO_0000056", "participates in", "orgactivitydict", "m">>>>,
     <<"Issues", <<"v", "https://raw.githubusercontent.com/adhollander/FSLschemas/main/fsisupp.owl#FSI_000239", "related sustainability issue", "issuedict", "m">>>>,
     <<"URL", <<"u", "http://dev.poderopedia.com/vocab/hasURL", "has URL", "", "m">>>>,
     <<"Contact", <<"d", "http://vivoweb.org/ontology/core#contactInformation", "contact", "", "s">>>>,
     <<"Taxa", <<"d", "https://raw.githubusercontent.com/adhollander/FSLschemas/main/fsisupp.owl#taxa", "taxa", "", "m">>>>,
     <<"Land Cover - CWHR", <<"v", "https://raw.githubusercontent.com/adhollander/FSLschemas/main/fsisupp.owl#habitatType", "habitat type", "habtypedict", "m">>>>,
     <<"Commodity", <<"v", "https://raw.githubusercontent.com/adhollander/FSLschemas/main/fsisupp.owl#commodity", "commodity", "commoditydict", "m">>>>,
     <<"Ecological Process", <<"d", "https://raw.githubusercontent.com/adhollander/FSLschemas/main/fsisupp.owl#ecologicalProcess", "ecological process", "", "s">>>>,
     <<"GM_Name", <<"o", "https://raw.githubusercontent.com/adhollander/FSLschemas/main/fsisupp.owl#GM_Name", "guideline/mandate name", "gmt", "m">>>>,
     <<"usecaseConservation", <<"d", "https://raw.githubusercontent.com/adhollander/FSLschemas/main/fsisupp.owl#usecaseCons", "use case: Conservation", "", "s">>>>,
     <<"usecaseMeat", <<"d", "https://raw.githubusercontent.com/adhollander/FSLschemas/main/fsisupp.owl#usecaseMeat", "use case: meat", "", "s">>>>,
     <<"usecaseSac", <<"d", "https://raw.githubusercontent.com/adhollander/FSLschemas/main/fsisupp.owl#usecaseSac", "use case: Sacramento", "", "s">>>>,
     <<"usecaseSCAG", <<"d", "https://raw.githubusercontent.com/adhollander/FSLschemas/main/fsisupp.owl#usecaseSCAG", "use case: SCAG", "", "s">>>>,
     <<"usecaseEcuador", <<"d", "https://raw.githubusercontent.com/adhollander/FSLschemas/main/fsisupp.owl#usecaseEcuador", "use case: Ecuador", "", "s">>>> >>

projpred ==
  << <<"Project", <<"d", "http://purl.org/dc/terms/title", "title", "", "s">>>>,
     <<"Alias", <<"d", "http://www.w3.org/2004/02/skos/core#altLabel", "alias", "", "s">>>>,
     <<"isPartOf", <<"o", "http://purl.org/dc/terms/isPartOf", "is part of", "prj", "m">>>>,
     <<"ProjType", <<"v", "https://raw.githubusercontent.com/adhollander/FSLschemas/main/fsisupp.owl#projType", "project type", "projtypedict", "m">>>>,
     <<"ProjProg", <<"o", "http://purl.obolibrary.org/obo/BFO_0000066", "occurs in", "prg", "m">>>>,
     <<"Organization (Lead)", <<"o", "https://raw.githubusercontent.com/adhollander/FSLschemas/main/fsisupp.owl#leadOrg", "lead organization", "org", "m">>>>,
     <<"Organization (Funding)", <<"o", "http://vivoweb.org/ontology/core#fundingAgentFor", "funding organization", "org", "m">>>>,
     <<"OrgFundProg", <<"o", "http://vivoweb.org/ontology/core#hasFundingVehicle", "funding provided via", "prg", "m">>>>,
     <<"Lead Individual", <<"d", "https://raw.githubusercontent.com/adhollander/FSLschemas/main/fsisupp.owl#leadIndividual", "lead individual", "", "s">>>>,
     <<"Partners", <<"o", "http://vivoweb.org/ontology/core#affiliatedOrganization", "partner organization", "org", "m">>>>,
     <<"Location", <<"d", "http://purl.obolibrary.org/obo/RO_0001025", "located in", "", "s">>>>,
     <<"County", <<"v", "https://raw.githubusercontent.com/adhollander/FSLschemas/main/fsisupp.owl#inCounty", "in county", "countydict", "m">>>>,
     <<"Ecoregion", <<"v", "https://raw.githubusercontent.com/adhollander/FSLschemas/main/fsisupp.owl#inEcoregion", "in ecoregion", "ecoregiondict", "m">>>>,
     <<"Watershed", <<"d", "https://raw.githubusercontent.com/adhollander/FSLschemas/main/fsisupp.owl#inWatershed", "in watershed", "", "s">>>>,
     <<"Issues", <<"v", "https://raw.githubusercontent.com/adhollander/FSLschemas/main/fsisupp.owl#FSI_000239", "related sustainability issue", "issuedict", "m">>>>,
     <<"has description", <<"u", "https://raw.githubusercontent.com/adhollander/FSLschemas/main/fsisupp.owl#projDetails", "project details", "", "s">>>>,
     <<"Indicators", <<"d", "https://raw.githubusercontent.com/adhollander/FSLschemas/main/fsisupp.owl#hasIndicator", "has indicator", "", "s">>>>,
     <<"inDataset", <<"o", "http://purl.obolibrary.org/obo/RO_0002352", "input of", "dts", "m">>>>,
     <<"outDataset", <<"o", "http://purl.obolibrary.org/obo/RO_0002353", "output of", "dts", "m">>>>,
     <<"Strategies", <<"d", "https://raw.githubusercontent.com/adhollander/FSLschemas/main/fsisupp.owl#hasStrategy", "has strategy", "", "m">>>>,
     <<"URL", <<"u", "http://dev.poderopedia.com/vocab/hasURL", "has URL", "", "m">>>>,
     <<"Taxa", <<"d", "https://raw.githubusercontent.com/adhollander/FSLschemas/main/fsisupp.owl#taxa", "taxa", "", "m">>>>,
     <<"Land Cover - CWHR", <<"v", "https://raw.githubusercontent.com/adhollander/FSLschemas/main/fsisupp.owl#habitatType", "habitat type", "habtypedict", "m">>>>,
     <<"Ecological Process", <<"d", "https://raw.githubusercontent.com/adhollander/FSLschemas/main/fsisupp.owl#ecologicalProcess", "ecological process", "", "s">>>>,
     <<"Start Year", <<"d", "http://dbpedia.org/ontology/startYear", "startYear", "", "s">>>>,
     <<"End Year", <<"d", "http://dbpedia.org/ontology/endYear", "endYear", "", "s">>>>,
     <<"Funding", <<"o", "http://purl.org/cerif/frapo/isFundedBy", "isFundedBy", "org", "m">>>>,
     <<"Latitude", <<"d", "https://www.w3.org/2003/01/geo/wgs84_pos#lat", "latitude", "", "s">>>>,
     <<"Longitude", <<"d", "https://www.w3.org/2003/01/geo/wgs84_pos#long", "longitude", "", "s">>>>,
     <<"FSL doc", <<"u", "https://raw.githubusercontent.com/adhollander/FSLschemas/main/fsisupp.owl#FSLdoc", "FSL doc", "", "s">>>>,
     <<"Use Case (Meat)", <<"d", "https://raw.githubusercontent.com/adhollander/FSLschemas/main/fsisupp.owl#usecaseMeat", "use case: meat", "", "s">>>>,
     <<"Use Case (EPA)", <<"d", "https://raw.githubusercontent.com/adhollander/FSLschemas/main/fsisupp.owl#usecaseEPA", "use case: EPA", "", "s">>>>,
     <<"Use Case (JPA)", <<"d", "https://raw.githubusercontent.com/adhollander/FSLschemas/main/fsisupp.owl#usecaseJPA", "use case: JPA", "", "s">>>> >>

progpred ==
  << <<"Program", <<"d", "http://purl.org/dc/terms/title", "title", "", "s">>>>,
     <<"Alias", <<"d", "http://www.w3.org/2004/02/skos/core#altLabel", "alias", "", "s">>>>,
     <<"ProgType", <<"v", "https://raw.githubusercontent.com/adhollander/FSLschemas/main/fsisupp.owl#progType", "program type", "progtypedict", "m">>>>,
     <<"Organization", <<"o", "https://raw.githubusercontent.com/adhollander/FSLschemas/main/fsisupp.owl#leadOrg", "lead organization", "org", "m">>>>,
     <<"Partners", <<"o", "http://vivoweb.org/ontology/core#affiliatedOrganization", "partner organization", "org", "m">>>>,
     <<"Issues", <<"v", "https://raw.githubusercontent.com/adhollander/FSLschemas/main/fsisupp.owl#FSI_000239", "related sustainability issue", "issuedict", "m">>>>,
     <<"Lead Individual", <<"d", "https://raw.githubusercontent.com/adhollander/FSLschemas/main/fsisupp.owl#leadIndividual", "lead individual", "", "s">>>>,
     <<"GM_Name", <<"o", "https://raw.githubusercontent.com/adhollander/FSLschemas/main/fsisupp.owl#GM_Name", "guideline/mandate name", "gmt", "m">>>>,
     <<"County", <<"v", "https://raw.githubusercontent.com/adhollander/FSLschemas/main/fsisupp.owl#inCounty", "in county", "countydict", "m">>>>,
     <<"Ecoregion", <<"v", "https://raw.githubusercontent.com/adhollander/FSLschemas/main/fsisupp.owl#inEcoregion", "in ecoregion", "ecoregiondict", "m">>>>,
     <<"URL", <<"u", "http://dev.poderopedia.com/vocab/hasURL", "has URL", "", "m">>>>,
     <<"Taxa", <<"d", "https://raw.githubusercontent.com/adhollander/FSLschemas/main/fsisupp.owl#taxa", "taxa", "", "m">>>>,
     <<"Use Case (Meat)", <<"d", "https://raw.githubusercontent.com/adhollander/FSLschemas/main/fsisupp.owl#usecaseMeat", "use case: meat", "", "s">>>>,
     <<"Use Case (EPA)", <<"d", "https://raw.githubusercontent.com/adhollander/FSLschemas/main/fsisupp.owl#usecaseEPA", "use case: EPA", "", "s">>>>,
     <<"Use Case (JPA)", <<"d", "https://raw.githubusercontent.com/adhollander/FSLschemas/main/fsisupp.owl#usecaseJPA", "use case: JPA", "", "s">>>>,
     <<"Use Case (SCAG)", <<"d", "https://raw.githubusercontent.com/adhollander/FSLschemas/main/fsisupp.owl#usecaseSCAG", "use case: SCAG", "", "s">>>> >>

personpred ==
  << <<"Full Name", <<"d", "http://xmlns.com/foaf/0.1/name", "full name", "", "s">>>>,
     <<"Last Name", <<"d", "http://xmlns.com/foaf/0.1/lastName", "last name", "", "s">>>>,
     <<"First Name", <<"d", "http://xmlns.com/foaf/0.1/firstName", "first name", "", "s">>>>,
     <<"Email", <<"d", "http://xmlns.com/foaf/0.1/mbox", "email", "", "s">>>>,
     <<"Phone", <<"d", "http://xmlns.com/foaf/0.1/phone", "phone", "", "s">>>>,
     <<"Issues", <<"v", "https://raw.githubusercontent.com/adhollander/FSLschemas/main/fsisupp.owl#FSI_000239", "related sustainability issue", "issuedict", "m">>>>,
     <<"Notes", <<"d", "https://raw.githubusercontent.com/adhollander/FSLschemas/main/fsisupp.owl#FSI_000243", "note", "", "s">>>>,
     <<"usecaseConservation", <<"d", "https://raw.githubusercontent.com/adhollander/FSLschemas/main/fsisupp.owl#usecaseCons", "use case: Conservation", "", "s">>>>,
     <<"usecaseMeat", <<"d", "https://raw.githubusercontent.com/adhollander/FSLschemas/main/fsisupp.owl#usecaseMeat", "use case: meat", "", "s">>>>,
     <<"usecaseSac", <<"d", "https://raw.githubusercontent.com/adhollander/FSLschemas/main/fsisupp.owl#usecaseSac", "use case: Sacramento", "", "s">>>>,
     <<"usecaseSCAG", <<"d", "https://raw.githubusercontent.com/adhollander/FSLschemas/main/fsisupp.owl#usecaseSCAG", "use case: SCAG", "", "s">>>>,
     <<"usecaseEcuador", <<"d", "https://raw.githubusercontent.com/adhollander/FSLschemas/main/fsisupp.owl#usecaseEcuador", "use case: Ecuador", "", "s">>>>,
     <<"usecaseBayAreaRAMP", <<"d", "https://raw.githubusercontent.com/adhollander/FSLschemas/main/fsisupp.owl#usecaseBayAreaRAMP", "use case: Bay Area RAMP", "", "s">>>> >>

personorgpred ==
  << <<"Full Name", <<"o", "http://purl.obolibrary.org/obo/RO_0000057", "has participant", "per", "s">>>>,
     <<"Organization", <<"o", "http://purl.obolibrary.org/obo/RO_0000081", "role of", "org", "s">>>>,
     <<"Position (Verbatim)", <<"d", "http://purl.org/dc/terms/title", "title", "", "d">>>>,
     <<"Position (Type)", <<"o", "https://raw.githubusercontent.com/adhollander/FSLschemas/main/fsisupp.owl#positionType", "position type", "positiontypedict", "m">>>>,
     <<"Year (Start)", <<"d", "http://dbpedia.org/ontology/startYear", "startYear", "", "d">>>>,
     <<"Year (End)", <<"d", "http://dbpedia.org/ontology/endYear", "endYear", "", "d">>>> >>

personprojpred ==
  << <<"Full Name", <<"o", "http://purl.obolibrary.org/obo/RO_0000057", "has participant", "per", "s">>>>,
     <<"Project", <<"o", "http://purl.obolibrary.org/obo/RO_0002331", "involved in", "prj", "s">>>>,
     <<"ProjRole", <<"d", "http://purl.obolibrary.org/obo/RO_0000087", "has role", "", "s">>>> >>

personprogrampred ==
  << <<"Full Name", <<"o", "http://purl.obolibrary.org/obo/RO_0000057", "has participant", "per", "s">>>>,
     <<"Program", <<"o", "http://purl.obolibrary.org/obo/RO_0002331", "involved in", "prg", "s">>>>,
     <<"Role", <<"d", "http://purl.obolibrary.org/obo/RO_0000087", "has role", "", "s">>>>,
     <<"Role (Type)", <<"u", "https://raw.githubusercontent.com/adhollander/FSLschemas/main/fsisupp.owl#roleType", "role type", "", "s">>>>,
     <<"Year (Start)", <<"d", "http://dbpedia.org/ontology/startYear", "start year", "", "s">>>>,
     <<"Year (End)", <<"d", "http://dbpedia.org/ontology/endYear", "end year", "", "s">>>> >>

guidelinespred ==
  << <<"GM_Name", <<"d", "http://purl.org/dc/terms/title", "Name", "", "s">>>>,
     <<"Alias", <<"d", "http://www.w3.org/2004/02/skos/core#altLabel", "alias", "", "s">>>>,
     <<"GMType", <<"v", "https://raw.githubusercontent.com/adhollander/FSLschemas/main/fsisupp.owl#gmType", "guideline/mandate type", "gmtypedict", "m">>>>,
     <<"Year", <<"d", "http://purl.org/dc/terms/date", "date", "", "s">>>>,
     <<"Issues", <<"v", "https://raw.githubusercontent.com/adhollander/FSLschemas/main/fsisupp.owl#FSI_000239", "related sustainability issue", "issuedict", "m">>>>,
     <<"GovLevel", <<"v", "https://raw.githubusercontent.com/adhollander/FSLschemas/main/fsisupp.owl#govLevel", "government level", "govleveldict", "m">>>>,
     <<"Counties", <<"v", "https://raw.githubusercontent.com/adhollander/FSLschemas/main/fsisupp.owl#inCounty", "in county", "countydict", "m">>>>,
     <<"Ecoregions", <<"v", "https://raw.githubusercontent.com/adhollander/FSLschemas/main/fsisupp.owl#inEcoregion", "in ecoregion", "ecoregiondict", "m">>>>,
     <<"URL", <<"u", "http://dev.poderopedia.com/vocab/hasURL", "has URL", "", "s">>>>,
     <<"Taxa", <<"d", "https://raw.githubusercontent.com/adhollander/FSLschemas/main/fsisupp.owl#taxa", "taxa", "", "s">>>>,
     <<"Land Cover - CWHR", <<"v", "https://raw.githubusercontent.com/adhollander/FSLschemas/main/fsisupp.owl#habitatType", "habitat type", "habtypedict", "m">>>>,
     <<"Ecological Process", <<"d", "https://raw.githubusercontent.com/adhollander/FSLschemas/main/fsisupp.owl#ecologicalProcess", "ecological process", "", "s">>>>,
     <<"Use Case (Meat)", <<"d", "https://raw.githubusercontent.com/adhollander/FSLschemas/main/fsisupp.owl#usecaseMeat", "use case: meat", "", "s">>>>,
     <<"Use Case (EPA)", <<"d", "https://raw.githubusercontent.com/adhollander/FSLschemas/main/fsisupp.owl#usecaseEPA", "use case: EPA", "", "s">>>> >>

orggmpred ==
  << <<"Created", <<"o", "http://iflastandards.info/ns/fr/frbr/frbrer/P2008", "creator of">>>>,
     <<"Was Created By", <<"o", "http://iflastandards.info/ns/fr/frbr/frbrer/P2007", "was created by">>>>,
     <<"Implements", <<"o", "https://w3id.org/dingo#implements", "implements">>>>,
     <<"Mandates", <<"o", "https://raw.githubusercontent.com/adhollander/FSLschemas/main/fsisupp.owl#mandates", "mandates">>>>,
     <<"Is Bound By", <<"o", "https://raw.githubusercontent.com/adhollander/FSLschemas/main/fsisupp.owl#isboundby", "is bound by">>>>,
     <<"Funds Established By", <<"o", "http://vivoweb.org/ontology/core#hasFundingVehicle", "has funding vehicle">>>>,
     <<"Is Certified By", <<"o", "https://raw.githubusercontent.com/adhollander/FSLschemas/main/fsisupp.owl#iscertifiedby", "is certified by">>>>,
     <<"Enforces", <<"o", "https://raw.githubusercontent.com/adhollander/FSLschemas/main/fsisupp.owl#enforces", "enforces">>>> >>

orgprojgmpred ==
  << <<"Organization", <<"o", "http://purl.obolibrary.org/obo/RO_0000057", "has participant", "org", "s">>>>,
     <<"OrgProjRelation", <<"o", "http://purl.obolibrary.org/obo/RO_0000087", "has role", "orgprojrelationdict", "s">>>>,
     <<"Project", <<"o", "http://purl.obolibrary.org/obo/RO_0002331", "involved in", "prj", "s">>>> >>

datasetpred ==
  << <<"Name", <<"d", "http://purl.org/dc/terms/title", "title", "", "s">>>>,
     <<"Organization (Created By)", <<"o", "http://iflastandards.info/ns/fr/frbr/frbrer/P2007", "was created by", "org", "s">>>>,
     <<"Issues", <<"v", "https://raw.githubusercontent.com/adhollander/FSLschemas/main/fsisupp.owl#FSI_000239", "related sustainability issue", "issuedict", "m">>>>,
     <<"GM_Name", <<"o", "https://raw.githubusercontent.com/adhollander/FSLschemas/main/fsisupp.owl#mandatedBy", "mandated by", "gmt", "m">>>>,
     <<"URL", <<"u", "http://dev.poderopedia.com/vocab/hasURL", "has URL", "", "s">>>>,
     <<"Use Case (Meat)", <<"d", "https://raw.githubusercontent.com/adhollander/FSLschemas/main/fsisupp.owl#usecaseMeat", "use case: meat", "", "s">>>>,
     <<"Use Case (JPA)", <<"d", "https://raw.githubusercontent.com/adhollander/FSLschemas/main/fsisupp.owl#usecaseJPA", "use case: JPA", "", "s">>>>,
     <<"Use Case (EPA)", <<"d", "https://raw.githubusercontent.com/adhollander/FSLschemas/main/fsisupp.owl#usecaseEPA", "use case: EPA", "", "s">>>> >>

toolpred ==
  << <<"Tool", <<"d", "http://purl.org/dc/terms/title", "title", "", "s">>>>,
     <<"Alias", <<"d", "http://www.w3.org/2004/02/skos/core#altLabel", "alias", "", "s">>>>,
     <<"Organization", <<"o", "http://iflastandards.info/ns/fr/frbr/frbrer/P2007", "was created by", "org", "s">>>>,
     <<"Issues", <<"v", "https://raw.githubusercontent.com/adhollander/FSLschemas/main/fsisupp.owl#FSI_000239", "related sustainability issue", "issuedict", "m">>>>,
     <<"inDataset", <<"o", "http://purl.obolibrary.org/obo/RO_0002233", "has input", "dts", "m">>>>,
     <<"outDataset", <<"o", "http://purl.obolibrary.org/obo/RO_0000087", "has output", "dts", "m">>>>,
     <<"ToolDetails", <<"d", "http://purl.org/dc/terms/references", "references", "", "s">>>>,
     <<"URL", <<"u", "http://dev.poderopedia.com/vocab/hasURL", "has URL", "", "s">>>> >>

usecases ==
  << <<"usecaseConservation", <<"https://raw.githubusercontent.com/adhollander/FSLschemas/main/CA_PPODterms.ttl#usecaseConservation", "Conservation use case">>>>,
     <<"usecaseMeat", <<"https://raw.githubusercontent.com/adhollander/FSLschemas/main/CA_PPODterms.ttl#usecaseMeat", "Meat use case">>>>,
     <<"usecaseSac", <<"https://raw.githubusercontent.com/adhollander/FSLschemas/main/CA_PPODterms.ttl#usecaseSac", "Sacramento case">>>>,
     <<"usecaseSCAG", <<"https://raw.githubusercontent.com/adhollander/FSLschemas/main/CA_PPODterms.ttl#usecaseSCAG", "SCAG use case">>>>,
     <<"usecaseEcuador", <<"https://raw.githubusercontent.com/adhollander/FSLschemas/main/CA_PPODterms.ttl#usecaseEcuador", "Ecuador use case">>>>,
     <<"usecaseBayAreaRAMP", <<"https://raw.githubusercontent.com/adhollander/FSLschemas/main/CA_PPODterms.ttl#BayAreaRAMP", "Bay Area RAMP use case">>>>,
     <<"Use Case (Meat)", <<"https://raw.githubusercontent.com/adhollander/FSLschemas/main/CA_PPODterms.ttl#usecaseMeat", "Meat use case">>>>,
     <<"Use Case (EPA)", <<"https://raw.githubusercontent.com/adhollander/FSLschemas/main/CA_PPODterms.ttl#usecaseEPA", "EPA use case">>>>,
     <<"Use Case (JPA)", <<"https://raw.githubusercontent.com/adhollander/FSLschemas/main/CA_PPODterms.ttl#usecaseJPA", "JPA use case">>>>,
     <<"Use Case (SCAG)", <<"https://raw.githubusercontent.com/adhollander/FSLschemas/main/CA_PPODterms.ttl#usecaseSCAG", "SCAG use case">>>> >>

(***************************************************************************)
(* Python dict and str operations.                                         *)
(***************************************************************************)
\* k in d
HasKey(d, k) == \E i \in 1..Len(d) : d[i][1] = k

\* d[k], for a key that is present
Get(d, k) == d[CHOOSE i \in 1..Len(d) : d[i][1] = k][2]

\* list(d.keys())
Keys(d) == [i \in 1..Len(d) |-> d[i][1]]

\* d.update({k: v}): a present key keeps its place and takes the new value
Update(d, k, v) ==
  IF HasKey(d, k)
  THEN [i \in 1..Len(d) |-> IF d[i][1] = k THEN <<k, v>> ELSE d[i]]
  ELSE Append(d, <<k, v>>)

\* {**a, **b}
RECURSIVE Merge(_, _)
Merge(a, b) ==
  IF b = <<>> THEN a ELSE Merge(Update(a, b[1][1], b[1][2]), Tail(b))

\* the text of a character sequence
RECURSIVE Str(_)
Str(cs) == IF cs = <<>> THEN "" ELSE cs[1] \o Str(Tail(cs))

\* s.split(',')
RECURSIVE Split(_)
Split(cs) ==
  IF \E i \in 1..Len(cs) : cs[i] = ","
  THEN LET i == CHOOSE j \in 1..Len(cs) :
                   cs[j] = "," /\ \A k \in 1..(j - 1) : cs[k] # ","
       IN  <<SubSeq(cs, 1, i - 1)>> \o Split(SubSeq(cs, i + 1, Len(cs)))
  ELSE <<cs>>

Whitespace == {" "}

\* s.strip()
RECURSIVE Strip(_)
Strip(cs) ==
  IF cs = <<>> THEN cs
  ELSE IF cs[1] \in Whitespace THEN Strip(Tail(cs))
  ELSE IF cs[Len(cs)] \in Whitespace THEN Strip(SubSeq(cs, 1, Len(cs) - 1))
  ELSE cs

\* ','.join(list)
RECURSIVE Join(_)
Join(l) ==
  IF l = <<>> THEN <<>>
  ELSE IF Len(l) = 1 THEN l[1]
  ELSE l[1] \o <<",">> \o Join(Tail(l))

(***************************************************************************)
(* binascii.crc32 (line 285): the CRC-32 of zlib, reflected polynomial     *)
(* EDB88320, initial value and final complement FFFFFFFF, a byte at a time *)
(* through the table of the 256 byte remainders.  A 32-bit word is the     *)
(* tuple of its 8 hexadecimal digits, the lowest first.                    *)
(***************************************************************************)
XorNibble(a, b) ==
  LET bit(x, k) == (x \div (2 ^ k)) % 2
  IN  ((bit(a, 0) + bit(b, 0)) % 2)
      + 2 * ((bit(a, 1) + bit(b, 1)) % 2)
      + 4 * ((bit(a, 2) + bit(b, 2)) % 2)
      + 8 * ((bit(a, 3) + bit(b, 3)) % 2)

XorTable == [a \in 0..15 |-> [b \in 0..15 |-> XorNibble(a, b)]]

Xor32(x, y) == [i \in 1..8 |-> XorTable[x[i]][y[i]]]

Shr1(x) == [i \in 1..8 |-> (x[i] \div 2) + (IF i < 8 THEN 8 * (x[i + 1] % 2) ELSE 0)]

Shr8(x) == [i \in 1..8 |-> IF i <= 6 THEN x[i + 2] ELSE 0]

CrcPoly == <<0, 2, 3, 8, 8, 11, 13, 14>>

CrcOnes == <<15, 15, 15, 15, 15, 15, 15, 15>>

RECURSIVE CrcBits(_, _)
CrcBits(x, n) ==
  IF n = 0 THEN x
  ELSE CrcBits(IF x[1] % 2 = 1 THEN Xor32(Shr1(x), CrcPoly) ELSE Shr1(x), n - 1)

CrcTable ==
  [b \in 0..255 |-> CrcBits(<<b % 16, b \div 16, 0, 0, 0, 0, 0, 0>>, 8)]

CrcByte(crc, b) ==
  Xor32(CrcTable[XorTable[crc[1]][b % 16] + 16 * XorTable[crc[2]][b \div 16]],
        Shr8(crc))

RECURSIVE CrcRun(_, _)
CrcRun(crc, bytes) ==
  IF bytes = <<>> THEN crc ELSE CrcRun(CrcByte(crc, bytes[1]), Tail(bytes))

crc32(bytes) == Xor32(CrcRun(CrcOnes, bytes), CrcOnes)

HexDigits ==
  <<"0", "1", "2", "3", "4", "5", "6", "7", "8", "9", "a", "b", "c", "d", "e", "f">>

\* hex(n): "0x" and the digits of n from its highest non-zero one, "0x0" for 0
hex(w) ==
  LET nz == {i \in 1..8 : w[i] # 0}
      top == IF nz = {} THEN 1 ELSE CHOOSE i \in nz : \A j \in nz : j <= i
  IN  <<"0", "x">> \o [k \in 1..top |-> HexDigits[w[top + 1 - k] + 1]]

\* s[lo:hi] for 0 <= lo <= hi
Slice(cs, lo, hi) ==
  SubSeq(cs, lo + 1, IF hi < Len(cs) THEN hi ELSE Len(cs))

\* ord(c) of the ASCII characters that occur in the model's texts
Ord ==
  "a" :> 97 @@ "b" :> 98 @@ "c" :> 99 @@ "d" :> 100 @@ "e" :> 101 @@ "f" :> 102
  @@ "g" :> 103 @@ "h" :> 104 @@ "i" :> 105 @@ "j" :> 106 @@ "k" :> 107 @@ "l" :> 108
  @@ "m" :> 109 @@ "n" :> 110 @@ "o" :> 111 @@ "p" :> 112 @@ "q" :> 113 @@ "r" :> 114
  @@ "s" :> 115 @@ "t" :> 116 @@ "u" :> 117 @@ "v" :> 118 @@ "w" :> 119 @@ "x" :> 120
  @@ "y" :> 121 @@ "z" :> 122 @@ "A" :> 65 @@ "B" :> 66 @@ "C" :> 67 @@ "D" :> 68
  @@ "E" :> 69 @@ "F" :> 70 @@ "G" :> 71 @@ "H" :> 72 @@ "I" :> 73 @@ "J" :> 74
  @@ "K" :> 75 @@ "L" :> 76 @@ "M" :> 77 @@ "N" :> 78 @@ "O" :> 79 @@ "P" :> 80
  @@ "Q" :> 81 @@ "R" :> 82 @@ "S" :> 83 @@ "T" :> 84 @@ "U" :> 85 @@ "V" :> 86
  @@ "W" :> 87 @@ "X" :> 88 @@ "Y" :> 89 @@ "Z" :> 90 @@ "0" :> 48 @@ "1" :> 49
  @@ "2" :> 50 @@ "3" :> 51 @@ "4" :> 52 @@ "5" :> 53 @@ "6" :> 54 @@ "7" :> 55
  @@ "8" :> 56 @@ "9" :> 57 @@ " " :> 32 @@ "," :> 44 @@ ":" :> 58 @@ "/" :> 47
  @@ "." :> 46 @@ "#" :> 35 @@ "_" :> 95 @@ "-" :> 45 @@ "(" :> 40 @@ ")" :> 41
  @@ "*" :> 42

\* s.encode("utf-8") of the characters the model uses, all of them ASCII
encode(cs) == [i \in 1..Len(cs) |-> Ord[cs[i]]]

makeid(s) == Str(Slice(hex(crc32(encode(s))), 2, 8))

\* makevocabdict (lines 295-302); vrole is the column vocabdframe[vocabdfstr]
RECURSIVE makevocabdictFrom(_, _, _, _)
makevocabdictFrom(vdict, vrole, prefix, prefixstr) ==
  IF vrole = <<>> THEN vdict
  ELSE LET s == vrole[1]
       IN  makevocabdictFrom(
             IF Len(s) > 0
             THEN Update(vdict, s, prefix \o prefixstr \o "_" \o makeid(s))
             ELSE vdict,
             Tail(vrole), prefix, prefixstr)

makevocabdict(vocabdframe, vocabdfstr, prefix, prefixstr) ==
  makevocabdictFrom(<<>>, vocabdframe[vocabdfstr], prefix, prefixstr)

(***************************************************************************)
(* rdflib terms and the graph: a term is <<"URIRef", text>> or             *)
(* <<"Literal", text>>, a triple is <<subject, predicate, object>> and the *)
(* graph is the set of its triples, so that g.add of a present triple      *)
(* changes nothing.                                                        *)
(***************************************************************************)
URIRef(s) == <<"URIRef", s>>

Literal(s) == <<"Literal", s>>

\* a local name of addtriple that no assignment has bound yet
Unbound == <<"unbound">>

\* 'usecase' in uri, decided over the ways a URI of the predicate
\* dictionaries can be cut around that word
UriHeads == {fslsprefix, auxprefix}

UriTails ==
  {"", "Cons", "Meat", "Sac", "SCAG", "Ecuador", "EPA", "JPA", "BayAreaRAMP",
   "Conservation"}

ContainsUsecase(uri) ==
  \E h \in UriHeads, t \in UriTails : uri = h \o "usecase" \o t

All == <<"A", "l", "l">>

County == <<" ", "C", "o", "u", "n", "t", "y">>

\* the names that eval() resolves to a vocabulary dictionary are the globals
\* creategraph has assigned, DOMAIN dicts
EvalError(name) == IF name = "" THEN "SyntaxError" ELSE "NameError"

(***************************************************************************)
(* addtriple (lines 313-353).  A frame f holds the graph, the printed      *)
(* lines, the local obj, the exception that escaped ("" for none) and, for *)
(* the record of the call, the triples handed to g.add and the lines       *)
(* printed by this call.                                                   *)
(***************************************************************************)
\* a g.add that reads the graph: a triple whose object is a node that is not
\* yet the subject of a triple is dropped; C14 rules it out
AddKnownObject(f, t) ==
  IF t[3][1] = "URIRef" /\ ~ \E x \in f.g : x[1] = t[3]
  THEN [f EXCEPT !.obj = t[3]]
  ELSE [f EXCEPT !.g = @ \cup {t}, !.obj = t[3], !.emitted = Append(@, t)]

\* a g.add on a store that is no set of triples: adding a triple that is
\* present takes it out; C16 rules it out
AddTogglesPresent(f, t) ==
  [f EXCEPT !.g = IF t \in @ THEN @ \ {t} ELSE @ \cup {t},
            !.obj = t[3], !.emitted = Append(@, t)]

Add(f, t) ==
  [f EXCEPT !.g = @ \cup {t}, !.obj = t[3], !.emitted = Append(@, t)]

\* the miss of a vocabulary term left uncaught: the KeyError escapes and
\* nothing is printed; C7 rules it out
PrintLineRaises(f, line) == [f EXCEPT !.exc = "KeyError"]

PrintLine(f, line) ==
  [f EXCEPT !.out = Append(@, line), !.printed = Append(@, line)]

\* the body of "for cell in celllist" (lines 326-353)
CellBody(f, prdetails, subj, cell, subjectstr, dicts) ==
  CASE prdetails[1] = "d" ->
         IF ContainsUsecase(prdetails[2])
         THEN IF cell = <<"X">> \/ cell = <<"x">>
              THEN Add(f, <<subj, URIRef(fslsprefix \o "usecase"),
                            URIRef(prdetails[2])>>)
              ELSE IF f.obj = Unbound
                   THEN [f EXCEPT !.exc = "UnboundLocalError"]
                   ELSE Add(f, <<subj, URIRef(prdetails[2]), f.obj>>)
         ELSE Add(f, <<subj, URIRef(prdetails[2]),
                       Literal(Str(IF prdetails[4] = "countydict"
                                   THEN cell \o County ELSE cell))>>)
    [] prdetails[1] = "v" ->
         IF prdetails[4] \notin DOMAIN dicts
         THEN [f EXCEPT !.exc = EvalError(prdetails[4])]
         ELSE IF HasKey(dicts[prdetails[4]], cell)
         THEN Add(f, <<subj, URIRef(prdetails[2]),
                       URIRef(Get(dicts[prdetails[4]], cell))>>)
         ELSE PrintLine(f, Str(subjectstr) \o ": " \o Str(cell) \o " not in "
                              \o prdetails[4])
    [] prdetails[1] = "o" ->
         Add(f, <<subj, URIRef(prdetails[2]),
                  URIRef(auxprefix \o prdetails[4] \o "_" \o makeid(cell))>>)
    [] prdetails[1] = "u" ->
         Add(f, <<subj, URIRef(prdetails[2]), URIRef(Str(cell))>>)
    [] OTHER -> f

RECURSIVE CellLoop(_, _, _, _, _, _)
CellLoop(f, prdetails, subj, celllist, subjectstr, dicts) ==
  IF celllist = <<>> \/ f.exc # "" THEN f
  ELSE CellLoop(CellBody(f, prdetails, subj, celllist[1], subjectstr, dicts),
                prdetails, subj, Tail(celllist), subjectstr, dicts)

\* lines 316-320: the value of cellval when the split is reached
Expand(prdetails, cellval, dicts) ==
  IF cellval = All
  THEN IF prdetails[4] = "countydict" THEN Join(Keys(dicts["countydict"]))
       ELSE IF prdetails[4] = "ecoregiondict"
       THEN Join(Keys(dicts["ecoregiondict"]))
       ELSE cellval
  ELSE cellval

\* the split without the strip of the pieces; C4 rules it out
CellListNoStrip(prdetails, cellval) ==
  IF prdetails[5] = "m" THEN Split(cellval) ELSE <<cellval>>

\* lines 321-324
CellList(prdetails, cellval) ==
  IF prdetails[5] = "m"
  THEN LET parts == Split(cellval)
       IN  [i \in 1..Len(parts) |-> Strip(parts[i])]
  ELSE <<cellval>>

\* m is the machine [g, out, calls, exc]; site tells the record of the call
\* where the call was made
addtriple(m, prdetails, subjval, cellval, subjectstr, dicts, site) ==
  LET subj == URIRef(subjval)
      expanded == Expand(prdetails, cellval, dicts)
      celllist == CellList(prdetails, expanded)
      f == CellLoop([g |-> m.g, out |-> m.out, obj |-> Unbound, exc |-> "",
                     emitted |-> <<>>, printed |-> <<>>],
                    prdetails, subj, celllist, subjectstr, dicts)
  IN  [g |-> f.g, out |-> f.out, exc |-> f.exc,
       calls |-> Append(m.calls,
                   [site |-> site, prdetails |-> prdetails, subj |-> subj,
                    cellval |-> cellval, expanded |-> expanded,
                    subjectstr |-> subjectstr, celllist |-> celllist,
                    emitted |-> f.emitted, printed |-> f.printed,
                    raised |-> f.exc])]

\* dict == dict of Python: the same items, in any order
DictEq(a, b) ==
  {a[i] : i \in 1..Len(a)} = {b[i] : i \in 1..Len(b)}

\* adddicttograph (lines 360-370)
adddicttograph(dicttoadd, gr, labeluri, countydict) ==
  gr \cup { <<URIRef(dicttoadd[i][2]), URIRef(labeluri \o "label"),
              Literal(Str(IF DictEq(dicttoadd, countydict)
                          THEN dicttoadd[i][1] \o County
                          ELSE dicttoadd[i][1]))>> : i \in 1..Len(dicttoadd) }

(***************************************************************************)
(* Data frames.  A sheet or CSV file is [columns, rows], each row a tuple  *)
(* of cells in column order; a sheet without rows has no columns either    *)
(* (pd.DataFrame of an empty list of records).                             *)
(***************************************************************************)
shape0(df) == Len(df.rows)

shape1(df) == Len(df.columns)

\* df.iloc[r, c], for a position inside the frame
iloc(df, r, c) == df.rows[r + 1][c + 1]

\* df[name], the column as a list
Col(df, name) ==
  LET c == CHOOSE j \in 1..Len(df.columns) : df.columns[j] = name
  IN  [i \in 1..Len(df.rows) |-> df.rows[i][c]]

(***************************************************************************)
(* The vocabulary dictionaries (lines 450-533).                            *)
(***************************************************************************)
\* "for i in range(df.shape[0]): d.update({df.iloc[i,kc] : prefix + df.iloc[i,vc]})"
\* (lines 453-455, 461-462, 478-479, 487-488, 507-508)
RECURSIVE LookupDictFrom(_, _, _, _, _, _)
LookupDictFrom(d, df, i, kc, vc, prefix) ==
  IF i >= shape0(df) THEN d
  ELSE LookupDictFrom(Update(d, iloc(df, i, kc), prefix \o Str(iloc(df, i, vc))),
                      df, i + 1, kc, vc, prefix)

LookupDict(df, kc, vc, prefix) == LookupDictFrom(<<>>, df, 0, kc, vc, prefix)

intissueprefix == "https://raw.githubusercontent.com/adhollander/FSLschemas/main/sustsource.owl#"

compissueprefix == "https://raw.githubusercontent.com/adhollander/FSLschemas/main/sustsourceindiv.rdf#"

whrprefix == "https://raw.githubusercontent.com/adhollander/FSLschemas/main/CA_PPODterms.ttl#whr_"

\* lines 493-499: the loop starts at the second entry of the column
EcoregionDict(vocabdf) ==
  LET ecoregions == vocabdf["Ecoregion_USDA"]
  IN  makevocabdictFrom(<<>>, Tail(ecoregions), auxprefix, "eco")

\* the globals that lines 467-533 assign
BuildDicts(book) ==
  LET vocabdf == [n \in {book["Vocabularies"].columns[j] :
                           j \in 1..Len(book["Vocabularies"].columns)} |->
                    Col(book["Vocabularies"], n)]
      intissuedict == LookupDict(book["Issues (Integrated)"], 1, 0, intissueprefix)
      compissuedict == LookupDict(book["Issues (Component)"], 1, 0, compissueprefix)
  IN  "issuedict" :> Merge(compissuedict, intissuedict)
      @@ "countydict" :> LookupDict(book["CACounties_WD.csv"], 1, 0, "")
      @@ "commoditydict" :> LookupDict(book["commodities.csv"], 0, 1, "")
      @@ "ecoregiondict" :> EcoregionDict(vocabdf)
      @@ "habtypedict" :> LookupDict(book["CWHR_Habitat_Lookup_Table.csv"], 0, 0, whrprefix)
      @@ "orgtypedict" :> makevocabdict(vocabdf, "OrgType", auxprefix, "oty")
      @@ "orgactivitydict" :> makevocabdict(vocabdf, "OrgActivity", auxprefix, "oac")
      @@ "projtypedict" :> makevocabdict(vocabdf, "ProjType", auxprefix, "pjt")
      @@ "progtypedict" :> makevocabdict(vocabdf, "ProgType", auxprefix, "pgt")
      @@ "gmtypedict" :> makevocabdict(vocabdf, "GMType", auxprefix, "gmn")
      @@ "govleveldict" :> makevocabdict(vocabdf, "GovLevel", auxprefix, "gvl")
      @@ "positiontypedict" :> makevocabdict(vocabdf, "PositionType", auxprefix, "pst")
      @@ "projroledict" :> makevocabdict(vocabdf, "PeopleProjRole", auxprefix, "prl")
      @@ "orggmrelationdict" :> makevocabdict(vocabdf, "orgGMRelation", auxprefix, "pst")
      @@ "orgprojrelationdict" :> makevocabdict(vocabdf, "orgProjRelation", auxprefix, "prl")
      @@ "geofeaturedict" :> makevocabdict(vocabdf, "GeoFeature", auxprefix, "geo")

\* the list of dictionaries of line 563, in its order
LabelledDicts ==
  <<"ecoregiondict", "issuedict", "countydict", "habtypedict", "orgtypedict",
    "orgactivitydict", "projtypedict", "progtypedict", "gmtypedict",
    "govleveldict", "positiontypedict", "projroledict", "orggmrelationdict",
    "orgprojrelationdict", "geofeaturedict", "commoditydict">>

\* line 563
RECURSIVE AddDicts(_, _, _)
AddDicts(gr, names, ds) ==
  IF names = <<>> THEN gr
  ELSE AddDicts(adddicttograph(ds[names[1]], gr, rdfsuri, ds["countydict"]),
                Tail(names), ds)

\* lines 425-434: the first label of a predicate URI is the winner
predsbyclasslist ==
  <<orgpred, projpred, progpred, personpred, personorgpred, personprojpred,
    personprogrampred, guidelinespred, orggmpred, orgprojgmpred, datasetpred,
    toolpred>>

RECURSIVE Flatten(_)
Flatten(ll) == IF ll = <<>> THEN <<>> ELSE ll[1] \o Flatten(Tail(ll))

\* the places in a list of (column, descriptor) items where a predicate URI
\* comes for the first time: "if pred0URI not in predlabeldict" (line 433)
FirstPlaces(items) ==
  SelectSeq([i \in 1..Len(items) |-> i],
            LAMBDA i : \A j \in 1..(i - 1) : items[j][2][2] # items[i][2][2])

PredLabelsFrom(items) ==
  LET firsts == FirstPlaces(items)
  IN  [k \in 1..Len(firsts) |-> <<items[firsts[k]][2][2], items[firsts[k]][2][3]>>]

predlabeldict == PredLabelsFrom(Flatten(predsbyclasslist))

\* lines 566-570
PredicateLabelTriples ==
  { <<URIRef(predlabeldict[i][1]), URIRef(rdfsuri \o "label"),
      Literal(predlabeldict[i][2])>> : i \in 1..Len(predlabeldict) }

(***************************************************************************)
(* Ingestion of the sheets (lines 578-767).                                *)
(***************************************************************************)
rdftype == URIRef(rdfuri \o "type")

rdfslabel == URIRef(rdfsuri \o "label")

RoleClass == URIRef("http://purl.obolibrary.org/obo/BFO_0000023")

GAdd(m, t) == [m EXCEPT !.g = @ \cup {t}]

Raise(m, e) == [m EXCEPT !.exc = e]

\* the column loop without the test "if cellval != ''": every cell of the row
\* goes through addtriple; C3 rules this loop out
RECURSIVE ColumnLoopNoSkip(_, _, _, _, _, _, _, _, _)
ColumnLoopNoSkip(m, df, r, c, preds, subjval, subjectstr, dicts, sheet) ==
  IF c >= shape1(df) \/ m.exc # "" THEN m
  ELSE LET colname == df.columns[c + 1]
           cellval == iloc(df, r, c)
       IN  IF HasKey(preds, colname)
           THEN ColumnLoopNoSkip(addtriple(m, Get(preds, colname), subjval, cellval,
                                           subjectstr, dicts, <<sheet, r, colname>>),
                                 df, r, c + 1, preds, subjval, subjectstr, dicts, sheet)
           ELSE Raise(m, "KeyError")

\* "for c in range(df.shape[1])": the cells of row r from column c on, each
\* non-empty one through addtriple with the entry of its column (lines 583-588)
RECURSIVE ColumnLoop(_, _, _, _, _, _, _, _, _)
ColumnLoop(m, df, r, c, preds, subjval, subjectstr, dicts, sheet) ==
  IF c >= shape1(df) \/ m.exc # "" THEN m
  ELSE LET colname == df.columns[c + 1]
           cellval == iloc(df, r, c)
       IN  IF cellval # <<>>
           THEN IF HasKey(preds, colname)
                THEN ColumnLoop(addtriple(m, Get(preds, colname), subjval, cellval,
                                          subjectstr, dicts, <<sheet, r, colname>>),
                                df, r, c + 1, preds, subjval, subjectstr, dicts, sheet)
                ELSE Raise(m, "KeyError")
           ELSE ColumnLoop(m, df, r, c + 1, preds, subjval, subjectstr, dicts, sheet)

\* a row whose type and label are added once its columns are through, and so
\* not at all when one of them raises; C10 rules it out
EntityRowColumnsFirst(m, df, r, preds, prefixstr, classuri, dicts, sheet) ==
  LET name == iloc(df, r, 0)
      subjval == auxprefix \o prefixstr \o "_" \o makeid(name)
      m1 == ColumnLoop(m, df, r, 0, preds, subjval, name, dicts, sheet)
  IN  IF m1.exc # "" THEN m1
      ELSE GAdd(GAdd(m1, <<URIRef(subjval), rdftype, URIRef(classuri)>>),
                <<URIRef(subjval), rdfslabel, Literal(Str(name))>>)

\* one row of a sheet of entities: organizations (lines 578-588), programs
\* (593-602), projects (608-617), people (621-630), guidelines (703-712),
\* datasets (744-753) and tools (758-767)
EntityRow(m, df, r, preds, prefixstr, classuri, dicts, sheet) ==
  LET name == iloc(df, r, 0)
      subjval == auxprefix \o prefixstr \o "_" \o makeid(name)
      m1 == GAdd(m, <<URIRef(subjval), rdftype, URIRef(classuri)>>)
      m2 == GAdd(m1, <<URIRef(subjval), rdfslabel, Literal(Str(name))>>)
  IN  ColumnLoop(m2, df, r, 0, preds, subjval, name, dicts, sheet)

UnstatedRole == <<"U", "n", "s", "t", "a", "t", "e", "d", " ", "r", "o", "l", "e">>

Participant == <<"P", "a", "r", "t", "i", "c", "i", "p", "a", "n", "t">>

RebeccaFris == <<"R", "e", "b", "e", "c", "c", "a", " ", "F", "r", "i", "s">>

\* the column loop of the people-orgs pass (lines 647-659)
RECURSIVE PeopleOrgColumns(_, _, _, _, _, _, _)
PeopleOrgColumns(m, peopleorgdf, r, c, subjval, rolestr, dicts) ==
  IF c >= shape1(peopleorgdf) \/ m.exc # "" THEN m
  ELSE LET colname == peopleorgdf.columns[c + 1]
           cell0 == iloc(peopleorgdf, r, c)
           m1 == IF iloc(peopleorgdf, r, 0) = RebeccaFris
                 THEN [m EXCEPT !.out = Append(@,
                         Str(iloc(peopleorgdf, r, 0)) \o " * "
                         \o Str(iloc(peopleorgdf, r, 2)) \o " * "
                         \o Str(iloc(peopleorgdf, r, 3)))]
                 ELSE m
           m2 == IF c = 2 /\ cell0 = <<>>
                 THEN [m1 EXCEPT !.out = Append(@, "empty string")]
                 ELSE m1
           cell1 == IF c = 2 /\ cell0 = <<>> THEN iloc(peopleorgdf, r, 3) ELSE cell0
           cellval == IF c = 2 /\ cell1 = <<>> THEN UnstatedRole ELSE cell1
       IN  IF cellval # <<>>
           THEN IF HasKey(personorgpred, colname)
                THEN PeopleOrgColumns(
                       addtriple(m2, Get(personorgpred, colname), subjval, cellval,
                                 rolestr, dicts, <<"PeopleOrg", r, colname>>),
                       peopleorgdf, r, c + 1, subjval, rolestr, dicts)
                ELSE Raise(m2, "KeyError")
           ELSE PeopleOrgColumns(m2, peopleorgdf, r, c + 1, subjval, rolestr, dicts)

\* one row of the people-orgs pass (lines 642-659)
PeopleOrgRow(m, peopleorgdf, r, dicts) ==
  LET rolestr == iloc(peopleorgdf, r, 0) \o iloc(peopleorgdf, r, 1)
                 \o iloc(peopleorgdf, r, 2)
      subjval == auxprefix \o "rol_" \o makeid(rolestr)
      m1 == GAdd(m, <<URIRef(subjval), rdfslabel,
                      Literal(Str(iloc(peopleorgdf, r, 2)))>>)
      m2 == GAdd(m1, <<URIRef(subjval), rdftype, RoleClass>>)
  IN  PeopleOrgColumns(m2, peopleorgdf, r, 0, subjval, rolestr, dicts)

\* the column loop of the people-proj pass (lines 674-681)
RECURSIVE PeopleProjColumns(_, _, _, _, _, _, _)
PeopleProjColumns(m, peopleprojdf, r, c, subjval, rolestr, dicts) ==
  IF c >= shape1(peopleprojdf) \/ m.exc # "" THEN m
  ELSE LET colname == peopleprojdf.columns[c + 1]
           cell0 == iloc(peopleprojdf, r, c)
           cellval == IF c = 2 /\ cell0 = <<>> THEN UnstatedRole ELSE cell0
       IN  IF cellval # <<>>
           THEN IF HasKey(personprojpred, colname)
                THEN PeopleProjColumns(
                       addtriple(m, Get(personprojpred, colname), subjval, cellval,
                                 rolestr, dicts, <<"PeopleProj", r, colname>>),
                       peopleprojdf, r, c + 1, subjval, rolestr, dicts)
                ELSE Raise(m, "KeyError")
           ELSE PeopleProjColumns(m, peopleprojdf, r, c + 1, subjval, rolestr, dicts)

\* one row of the people-proj pass (lines 663-681)
PeopleProjRow(m, peopleprojdf, r, dicts) ==
  LET newrole == IF iloc(peopleprojdf, r, 2) = <<>> THEN Participant
                 ELSE iloc(peopleprojdf, r, 2)
      rolestr == iloc(peopleprojdf, r, 0) \o iloc(peopleprojdf, r, 1) \o newrole
      subjval == auxprefix \o "rol_" \o makeid(rolestr)
      m1 == GAdd(m, <<URIRef(subjval), rdfslabel, Literal(Str(newrole))>>)
      m2 == GAdd(m1, <<URIRef(subjval), rdftype, RoleClass>>)
  IN  PeopleProjColumns(m2, peopleprojdf, r, 0, subjval, rolestr, dicts)

\* one row of the people-program pass (lines 687-698): the role string and
\* the label are read from row r of the people-orgs frame
PeopleProgramRow(m, peopleprogramdf, peopleorgdf, r, dicts) ==
  IF r >= shape0(peopleorgdf) \/ shape1(peopleorgdf) < 3
  THEN Raise(m, "IndexError")
  ELSE LET rolestr == iloc(peopleorgdf, r, 0) \o iloc(peopleorgdf, r, 1)
                      \o iloc(peopleorgdf, r, 2)
           subjval == auxprefix \o "rol_" \o makeid(rolestr)
           m1 == GAdd(m, <<URIRef(subjval), rdfslabel,
                           Literal(Str(iloc(peopleorgdf, r, 2)))>>)
           m2 == GAdd(m1, <<URIRef(subjval), rdftype, RoleClass>>)
       IN  ColumnLoop(m2, peopleprogramdf, r, 0, personprogrampred, subjval,
                      rolestr, dicts, "PeopleProgram")

\* one row of the organizations - guidelines/mandates pass (lines 718-723)
OrgGMRow(m, orggmdf, r) ==
  LET orgname == iloc(orggmdf, r, 0)
      subjval == auxprefix \o "org_" \o makeid(orgname)
      relation == Str(iloc(orggmdf, r, 1))
  IN  IF ~ HasKey(orggmpred, relation) THEN Raise(m, "KeyError")
      ELSE LET pred == Get(orggmpred, relation)[2]
               objval == auxprefix \o "gmt_" \o makeid(iloc(orggmdf, r, 2))
           IN  GAdd(m, <<URIRef(subjval), URIRef(pred), URIRef(objval)>>)

\* one row of the organizations - projects - guidelines pass (lines 729-739)
OrgProjGMRow(m, orgprojgmdf, r, dicts) ==
  LET rolestr == iloc(orgprojgmdf, r, 2) \o iloc(orgprojgmdf, r, 3)
                 \o iloc(orgprojgmdf, r, 4)
      roleval == auxprefix \o "rol_" \o makeid(rolestr)
      m1 == GAdd(m, <<URIRef(roleval), rdfslabel,
                      Literal(Str(iloc(orgprojgmdf, r, 3)))>>)
      m2 == GAdd(m1, <<URIRef(roleval), rdftype, RoleClass>>)
      gmname == iloc(orgprojgmdf, r, 0)
      subjval == auxprefix \o "gmt_" \o makeid(gmname)
  IN  IF ~ HasKey(dicts["orggmrelationdict"], iloc(orgprojgmdf, r, 1))
      THEN Raise(m2, "KeyError")
      ELSE GAdd(m2, <<URIRef(subjval),
                      URIRef(Get(dicts["orggmrelationdict"], iloc(orgprojgmdf, r, 1))),
                      URIRef(roleval)>>)

(***************************************************************************)
(* The workbooks the model reads.                                          *)
(***************************************************************************)
tA == <<"A">>

tB == <<"B">>

tR == <<"R">>

tT == <<"T">>

tZ == <<"Z">>

tAZ == <<"A", ",", " ", "Z">>

tCreated == <<"C", "r", "e", "a", "t", "e", "d">>

\* the columns of the sheets: those of the predicate dictionary of the sheet,
\* in its order; the code reads the two link sheets by position alone
SheetColumns ==
  "Organizations" :> Keys(orgpred)
  @@ "Programs" :> Keys(progpred)
  @@ "Projects" :> Keys(projpred)
  @@ "People" :> Keys(personpred)
  @@ "PeopleOrg" :> Keys(personorgpred)
  @@ "PeopleProj" :> Keys(personprojpred)
  @@ "PeopleProgram" :> Keys(personprogrampred)
  @@ "Guidelines_Mandates" :> Keys(guidelinespred)
  @@ "OrgGM" :> <<"Organization", "Relation", "GM_Name">>
  @@ "OrgProjGM" :> <<"GM_Name", "Relation">> \o Keys(orgprojgmpred)
  @@ "Datasets" :> Keys(datasetpred)
  @@ "Tools" :> Keys(toolpred)

\* the sheets in the order creategraph ingests them
Sheets ==
  <<"Organizations", "Programs", "Projects", "People", "PeopleOrg", "PeopleProj",
    "PeopleProgram", "Guidelines_Mandates", "OrgGM", "OrgProjGM", "Datasets",
    "Tools">>

SheetIndex(s) == CHOOSE i \in 1..Len(Sheets) : Sheets[i] = s

\* a column that no predicate dictionary has an entry for
ExtraColumn == "Comments"

\* the columns of a sheet of the workbook with the rows s: those of its
\* predicate dictionary, and the extra column after them when a row of the
\* sheet has it
ColumnsOf(sheet, s) ==
  SheetColumns[sheet]
  \o (IF \E i \in 1..Len(s) : s[i][1] = sheet /\ ExtraColumn \in DOMAIN s[i][2]
      THEN <<ExtraColumn>> ELSE <<>>)

\* the row under the columns cols whose filled cells are those of cells, a
\* function from column names to texts
RowOf(cols, cells) ==
  [c \in 1..Len(cols) |-> IF cols[c] \in DOMAIN cells THEN cells[cols[c]] ELSE <<>>]

\* the rows a sheet of the model may hold
RowChoices ==
  { <<"Organizations", "Organization" :> tA>>,
    <<"Organizations", "Organization" :> tB @@ "isPartOf" :> tA>>,
    <<"Organizations", "Organization" :> tA @@ "County" :> tAZ>>,
    <<"Organizations", "Organization" :> tA @@ "County" :> All>>,
    <<"Organizations", "Organization" :> tA @@ "usecaseMeat" :> <<"X">> >>,
    <<"Organizations", "Organization" :> tA @@ "usecaseMeat" :> <<"y">> >>,
    <<"Organizations", "Organization" :> tA @@ "Comments" :> <<>> >>,
    <<"Organizations", "Organization" :> tA @@ "Comments" :> tA>>,
    <<"Programs", "Program" :> tA>>,
    <<"Programs", "Program" :> tA @@ "Organization" :> tA>>,
    <<"Projects", "Project" :> tA>>,
    <<"Projects", "Project" :> tA @@ "inDataset" :> tA>>,
    <<"Projects", "Project" :> tA @@ "ProjProg" :> tA>>,
    <<"People", "Full Name" :> tA>>,
    <<"People", "Full Name" :> tA @@ "Issues" :> tZ>>,
    <<"People", "Full Name" :> tA @@ "Comments" :> tA>>,
    <<"PeopleOrg", "Full Name" :> tA @@ "Organization" :> tB>>,
    <<"PeopleOrg", "Full Name" :> tA @@ "Organization" :> tB
                   @@ "Position (Type)" :> tT>>,
    <<"PeopleOrg", "Full Name" :> tA @@ "Organization" :> tB
                   @@ "Position (Verbatim)" :> tR>>,
    <<"PeopleProj", "Full Name" :> tA @@ "Project" :> tB>>,
    <<"PeopleProj", "Full Name" :> tA @@ "Project" :> tB @@ "ProjRole" :> tR>>,
    <<"PeopleProgram", "Full Name" :> tA @@ "Program" :> tB>>,
    <<"PeopleProgram", "Full Name" :> tA @@ "Program" :> tB @@ "Role" :> tR>>,
    <<"Guidelines_Mandates", "GM_Name" :> tA>>,
    <<"Guidelines_Mandates", "GM_Name" :> tA @@ "Counties" :> All>>,
    <<"OrgGM", "Organization" :> tA @@ "Relation" :> tCreated @@ "GM_Name" :> tA>>,
    <<"OrgGM", "Organization" :> tA @@ "Relation" :> tZ @@ "GM_Name" :> tA>>,
    <<"OrgProjGM", "GM_Name" :> tA @@ "Relation" :> tA @@ "Organization" :> tA
                   @@ "OrgProjRelation" :> tR @@ "Project" :> tB>>,
    <<"OrgProjGM", "GM_Name" :> tA @@ "Relation" :> tZ @@ "Organization" :> tA
                   @@ "OrgProjRelation" :> tR @@ "Project" :> tB>>,
    <<"Datasets", "Name" :> tA>>,
    <<"Datasets", "Name" :> tA @@ "GM_Name" :> tA>>,
    <<"Tools", "Tool" :> tA>>,
    <<"Tools", "Tool" :> tA @@ "inDataset" :> tA>> }

\* the data rows of a workbook, sheet after sheet: at most MaxRows of them
RowLists ==
  { s \in UNION { [1..n -> RowChoices] : n \in 0..MaxRows } :
      \A i \in 1..Len(s), j \in 1..Len(s) :
        i < j => SheetIndex(s[i][1]) <= SheetIndex(s[j][1]) }

RECURSIVE RowsOf(_, _, _)
RowsOf(sheet, cols, s) ==
  IF s = <<>> THEN <<>>
  ELSE IF s[1][1] = sheet
  THEN <<RowOf(cols, s[1][2])>> \o RowsOf(sheet, cols, Tail(s))
  ELSE RowsOf(sheet, cols, Tail(s))

Frame(sheet, s) ==
  LET rows == RowsOf(sheet, ColumnsOf(sheet, s), s)
  IN  [columns |-> IF rows = <<>> THEN <<>> ELSE ColumnsOf(sheet, s), rows |-> rows]

\* the columns of the Vocabularies sheet that creategraph reads
VocabColumns ==
  <<"Ecoregion_USDA", "OrgType", "OrgActivity", "ProjType", "ProgType", "GMType",
    "GovLevel", "PositionType", "PeopleProjRole", "orgGMRelation",
    "orgProjRelation", "GeoFeature">>

\* the vocabulary sheets and files that list the terms of K: the ecoregion
\* column opens with its "All" entry, the issue sheets give (suffix, term), the
\* county file (URI, name), the commodity file (name, URI)
VocabFrames(K) ==
  "Vocabularies" :>
     [columns |-> VocabColumns,
      rows |-> <<[c \in 1..Len(VocabColumns) |-> IF c = 1 THEN All ELSE <<>>]>>
               \o [k \in 1..Len(K) |-> [c \in 1..Len(VocabColumns) |-> K[k]]]]
  @@ "Issues (Integrated)" :>
     [columns |-> <<"ID", "Issue">>,
      rows |-> [k \in 1..Len(K) |-> << <<"I">> \o K[k], K[k] >>]]
  @@ "Issues (Component)" :>
     [columns |-> <<"ID", "Issue">>,
      rows |-> [k \in 1..Len(K) |-> << <<"C">> \o K[k], K[k] >>]]
  @@ "CACounties_WD.csv" :>
     [columns |-> <<"county", "countyLabel">>,
      rows |-> [k \in 1..Len(K) |-> << <<"Q">> \o K[k], K[k] >>]]
  @@ "commodities.csv" :>
     [columns |-> <<"commodity", "uri">>,
      rows |-> [k \in 1..Len(K) |-> << K[k], <<"M">> \o K[k] >>]]
  @@ "CWHR_Habitat_Lookup_Table.csv" :>
     [columns |-> <<"code">>,
      rows |-> [k \in 1..Len(K) |-> << K[k] >>]]

Workbook(K, s) ==
  VocabFrames(K) @@ [sheet \in {Sheets[i] : i \in 1..Len(Sheets)} |-> Frame(sheet, s)]

\* the terms of the vocabularies of the ingested workbooks
Terms == <<tA, tB>>

(***************************************************************************)
(* The state of a run of creategraph.                                      *)
(***************************************************************************)
VARIABLES
  pc,      \* the place creategraph has reached, or the function under call
  r,       \* the row index of the running pass
  wb,      \* the sheets and files read at the start (lines 388-420, 474-504)
  dicts,   \* the global vocabulary dictionaries, by name
  g,       \* the graph
  out,     \* the lines printed
  exc,     \* the exception that ended the run, "" while there is none
  calls,   \* the record of the calls of addtriple, oldest first
  arg,     \* the arguments of a function called on its own
  ret      \* its result

vars == <<pc, r, wb, dicts, g, out, exc, calls, arg, ret>>

Machine == [g |-> g, out |-> out, exc |-> exc, calls |-> calls]

Init ==
  /\ pc = "dicts"
  /\ r = 0
  /\ \E s \in RowLists : wb = Workbook(Terms, s)
  /\ dicts = <<>>
  /\ g = {}
  /\ out = <<>>
  /\ exc = ""
  /\ calls = <<>>
  /\ arg = <<>>
  /\ ret = <<>>

\* the effect of one row on the state; an exception leaves the run at the row
RowDone(m) ==
  /\ g' = m.g
  /\ out' = m.out
  /\ exc' = m.exc
  /\ calls' = m.calls
  /\ r' = IF m.exc = "" THEN r + 1 ELSE r
  /\ UNCHANGED <<pc, wb, dicts, arg, ret>>

\* the end of a loop that has used up the county dictionary for its wildcard
\* cells and leaves it empty; C17 rules it out
PassDoneCountiesSpent(next) ==
  /\ pc' = next
  /\ r' = 0
  /\ dicts' = [dicts EXCEPT !["countydict"] = <<>>]
  /\ UNCHANGED <<wb, g, out, exc, calls, arg, ret>>

\* the end of a loop over the rows
PassDone(next) ==
  /\ pc' = next
  /\ r' = 0
  /\ UNCHANGED <<wb, dicts, g, out, exc, calls, arg, ret>>

\* lines 450-533
Vocabularies ==
  /\ pc = "dicts" /\ exc = ""
  /\ dicts' = BuildDicts(wb)
  /\ pc' = "vocablabels"
  /\ UNCHANGED <<r, wb, g, out, exc, calls, arg, ret>>

\* lines 559-563
VocabLabels ==
  /\ pc = "vocablabels" /\ exc = ""
  /\ g' = AddDicts({}, LabelledDicts, dicts)
  /\ pc' = "predlabels"
  /\ UNCHANGED <<r, wb, dicts, out, exc, calls, arg, ret>>

\* lines 566-570
PredLabels ==
  /\ pc = "predlabels" /\ exc = ""
  /\ g' = g \cup PredicateLabelTriples
  /\ pc' = "Organizations"
  /\ UNCHANGED <<r, wb, dicts, out, exc, calls, arg, ret>>

\* lines 578-588
Organizations ==
  /\ pc = "Organizations" /\ exc = ""
  /\ IF r < shape0(wb["Organizations"])
     THEN RowDone(EntityRow(Machine, wb["Organizations"], r, orgpred, "org",
                            Get(PPODrefs, "Organizations"), dicts, "Organizations"))
     ELSE PassDone("Programs")

\* lines 593-602
Programs ==
  /\ pc = "Programs" /\ exc = ""
  /\ IF r < shape0(wb["Programs"])
     THEN RowDone(EntityRow(Machine, wb["Programs"], r, progpred, "prg",
                            Get(PPODrefs, "Programs"), dicts, "Programs"))
     ELSE PassDone("Projects")

\* lines 608-617
Projects ==
  /\ pc = "Projects" /\ exc = ""
  /\ IF r < shape0(wb["Projects"])
     THEN RowDone(EntityRow(Machine, wb["Projects"], r, projpred, "prj",
                            Get(PPODrefs, "Projects"), dicts, "Projects"))
     ELSE PassDone("People")

\* lines 621-630
People ==
  /\ pc = "People" /\ exc = ""
  /\ IF r < shape0(wb["People"])
     THEN RowDone(EntityRow(Machine, wb["People"], r, personpred, "per",
                            Get(PPODrefs, "People"), dicts, "People"))
     ELSE PassDone("Role")

\* line 636
Role ==
  /\ pc = "Role" /\ exc = ""
  /\ g' = g \cup {<<RoleClass, rdfslabel, Literal("Role")>>}
  /\ pc' = "PeopleOrg"
  /\ UNCHANGED <<r, wb, dicts, out, exc, calls, arg, ret>>

\* lines 642-659
PeopleOrg ==
  /\ pc = "PeopleOrg" /\ exc = ""
  /\ IF r < shape0(wb["PeopleOrg"])
     THEN RowDone(PeopleOrgRow(Machine, wb["PeopleOrg"], r, dicts))
     ELSE PassDone("PeopleProj")

\* lines 663-681
PeopleProj ==
  /\ pc = "PeopleProj" /\ exc = ""
  /\ IF r < shape0(wb["PeopleProj"])
     THEN RowDone(PeopleProjRow(Machine, wb["PeopleProj"], r, dicts))
     ELSE PassDone("PeopleProgram")

\* lines 687-698
PeopleProgram ==
  /\ pc = "PeopleProgram" /\ exc = ""
  /\ IF r < shape0(wb["PeopleProgram"])
     THEN RowDone(PeopleProgramRow(Machine, wb["PeopleProgram"], wb["PeopleOrg"],
                                   r, dicts))
     ELSE PassDone("Guidelines_Mandates")

\* lines 703-712
Guidelines ==
  /\ pc = "Guidelines_Mandates" /\ exc = ""
  /\ IF r < shape0(wb["Guidelines_Mandates"])
     THEN RowDone(EntityRow(Machine, wb["Guidelines_Mandates"], r, guidelinespred,
                            "gmt", Get(PPODrefs, "Guidelines_Mandates"), dicts,
                            "Guidelines_Mandates"))
     ELSE PassDone("OrgGM")

\* lines 718-723
OrgGM ==
  /\ pc = "OrgGM" /\ exc = ""
  /\ IF r < shape0(wb["OrgGM"])
     THEN RowDone(OrgGMRow(Machine, wb["OrgGM"], r))
     ELSE PassDone("OrgProjGM")

\* lines 729-739
OrgProjGM ==
  /\ pc = "OrgProjGM" /\ exc = ""
  /\ IF r < shape0(wb["OrgProjGM"])
     THEN RowDone(OrgProjGMRow(Machine, wb["OrgProjGM"], r, dicts))
     ELSE PassDone("Datasets")

\* lines 744-753
Datasets ==
  /\ pc = "Datasets" /\ exc = ""
  /\ IF r < shape0(wb["Datasets"])
     THEN RowDone(EntityRow(Machine, wb["Datasets"], r, datasetpred, "dat",
                            Get(PPODrefs, "Datasets"), dicts, "Datasets"))
     ELSE PassDone("Tools")

\* lines 758-767
Tools ==
  /\ pc = "Tools" /\ exc = ""
  /\ IF r < shape0(wb["Tools"])
     THEN RowDone(EntityRow(Machine, wb["Tools"], r, toolpred, "tol",
                            Get(PPODrefs, "Tools"), dicts, "Tools"))
     ELSE PassDone("return")

\* line 770
Return ==
  /\ pc = "return" /\ exc = ""
  /\ pc' = "done"
  /\ UNCHANGED <<r, wb, dicts, g, out, exc, calls, arg, ret>>

Next ==
  \/ Vocabularies
  \/ VocabLabels
  \/ PredLabels
  \/ Organizations
  \/ Programs
  \/ Projects
  \/ People
  \/ Role
  \/ PeopleOrg
  \/ PeopleProj
  \/ PeopleProgram
  \/ Guidelines
  \/ OrgGM
  \/ OrgProjGM
  \/ Datasets
  \/ Tools
  \/ Return

Spec == Init /\ [][Next]_vars

(***************************************************************************)
(* addtriple called on its own: one call, on an empty graph, with a column *)
(* of a predicate dictionary, a cell and the dictionaries of a vocabulary. *)
(***************************************************************************)
\* the predicate dictionaries whose entries creategraph hands to addtriple
EmitterSchemas ==
  <<orgpred, progpred, projpred, personpred, personorgpred, personprojpred,
    personprogrampred, guidelinespred, datasetpred, toolpred>>

EmitterColumns ==
  UNION { { EmitterSchemas[n][i] : i \in 1..Len(EmitterSchemas[n]) } :
          n \in 1..Len(EmitterSchemas) }

\* the cells of the calls: up to MaxPieces pieces joined by commas
Pieces == {tA, <<" ", "Z", " ">>, All, <<"X">>, <<"x">>, <<>>}

Cells ==
  { Join(l) : l \in UNION { [1..n -> Pieces] : n \in 1..MaxPieces } } \ {<<>>}

\* the term lists of the vocabularies of the calls
TermLists == {<<>>, <<tA>>, <<tA, tB>>, << <<"A", ",", "B">> >>}

EmitSubject == auxprefix \o "org_" \o makeid(tA)

InitEmit ==
  /\ pc = "addtriple"
  /\ r = 0
  /\ \E K \in TermLists : wb = VocabFrames(K) /\ dicts = BuildDicts(VocabFrames(K))
  /\ g = {}
  /\ out = <<>>
  /\ exc = ""
  /\ calls = <<>>
  /\ \E col \in EmitterColumns, cell \in Cells :
       arg = [colname |-> col[1], prdetails |-> col[2], cellval |-> cell]
  /\ ret = <<>>

CallAddtriple ==
  /\ pc = "addtriple"
  /\ LET m == addtriple(Machine, arg.prdetails, EmitSubject, arg.cellval, tA, dicts,
                        <<"call", 0, arg.colname>>)
     IN  /\ g' = m.g
         /\ out' = m.out
         /\ exc' = m.exc
         /\ calls' = m.calls
  /\ pc' = "returned"
  /\ UNCHANGED <<r, wb, dicts, arg, ret>>

NextEmit == CallAddtriple

SpecEmit == InitEmit /\ [][NextEmit]_vars

(***************************************************************************)
(* makeid called on its own, with the texts of up to MaxLen characters.    *)
(***************************************************************************)
HashAlphabet == {"A", "B", "Z", "l"}

Texts == UNION { [1..n -> HashAlphabet] : n \in 0..MaxLen }

InitMakeid ==
  /\ pc = "makeid"
  /\ r = 0
  /\ wb = <<>>
  /\ dicts = <<>>
  /\ g = {}
  /\ out = <<>>
  /\ exc = ""
  /\ calls = <<>>
  /\ arg \in Texts
  /\ ret = <<>>

CallMakeid ==
  /\ pc = "makeid"
  /\ ret' = makeid(arg)
  /\ pc' = "returned"
  /\ UNCHANGED <<r, wb, dicts, g, out, exc, calls, arg>>

NextMakeid == CallMakeid

SpecMakeid == InitMakeid /\ [][NextMakeid]_vars

(***************************************************************************)
(* creategraph with its passes in any order: the dictionaries and the      *)
(* labels first (lines 450-570), then the passes of lines 578-767 in the   *)
(* order arg, each over all the rows of its sheet.                         *)
(***************************************************************************)
\* row i of the pass of a sheet, on the machine m
IngestRow(m, book, ds, sheet, i) ==
  CASE sheet = "Organizations" ->
         EntityRow(m, book[sheet], i, orgpred, "org", Get(PPODrefs, sheet), ds, sheet)
    [] sheet = "Programs" ->
         EntityRow(m, book[sheet], i, progpred, "prg", Get(PPODrefs, sheet), ds, sheet)
    [] sheet = "Projects" ->
         EntityRow(m, book[sheet], i, projpred, "prj", Get(PPODrefs, sheet), ds, sheet)
    [] sheet = "People" ->
         EntityRow(m, book[sheet], i, personpred, "per", Get(PPODrefs, sheet), ds, sheet)
    [] sheet = "PeopleOrg" -> PeopleOrgRow(m, book[sheet], i, ds)
    [] sheet = "PeopleProj" -> PeopleProjRow(m, book[sheet], i, ds)
    [] sheet = "PeopleProgram" ->
         PeopleProgramRow(m, book[sheet], book["PeopleOrg"], i, ds)
    [] sheet = "Guidelines_Mandates" ->
         EntityRow(m, book[sheet], i, guidelinespred, "gmt", Get(PPODrefs, sheet), ds,
                   sheet)
    [] sheet = "OrgGM" -> OrgGMRow(m, book[sheet], i)
    [] sheet = "OrgProjGM" -> OrgProjGMRow(m, book[sheet], i, ds)
    [] sheet = "Datasets" ->
         EntityRow(m, book[sheet], i, datasetpred, "dat", Get(PPODrefs, sheet), ds, sheet)
    [] sheet = "Tools" ->
         EntityRow(m, book[sheet], i, toolpred, "tol", Get(PPODrefs, sheet), ds, sheet)

\* the rows of a sheet from row i on, until one raises
RECURSIVE IngestRows(_, _, _, _, _)
IngestRows(m, book, ds, sheet, i) ==
  IF i >= shape0(book[sheet]) \/ m.exc # "" THEN m
  ELSE IngestRows(IngestRow(m, book, ds, sheet, i), book, ds, sheet, i + 1)

\* the passes of creategraph in its order; "Role" is the label of line 636
Passes ==
  <<"Organizations", "Programs", "Projects", "People", "Role", "PeopleOrg",
    "PeopleProj", "PeopleProgram", "Guidelines_Mandates", "OrgGM", "OrgProjGM",
    "Datasets", "Tools">>

\* the passes of a list one after the other, until one raises
RECURSIVE IngestPasses(_, _, _, _)
IngestPasses(m, book, ds, order) ==
  IF order = <<>> \/ m.exc # "" THEN m
  ELSE IngestPasses(IF order[1] = "Role"
                    THEN GAdd(m, <<RoleClass, rdfslabel, Literal("Role")>>)
                    ELSE IngestRows(m, book, ds, order[1], 0),
                    book, ds, Tail(order))

\* the machine when the first pass starts (lines 559-570)
LabelledGraph(ds) ==
  [g |-> AddDicts({}, LabelledDicts, ds) \cup PredicateLabelTriples,
   out |-> <<>>, exc |-> "", calls |-> <<>>]

\* the orders of the passes that the model runs: the order of the source
\* and its reverse, each started at any of its passes
Rotations(seq) ==
  { [i \in 1..Len(seq) |-> seq[((i + k - 1) % Len(seq)) + 1]] : k \in 0..(Len(seq) - 1) }

Reverse(seq) == [i \in 1..Len(seq) |-> seq[Len(seq) + 1 - i]]

Orders == Rotations(Passes) \cup Rotations(Reverse(Passes))

\* the rows of the workbooks of these runs: rows of sheets that name
\* entities of one another, with configured columns only
OrderRowChoices ==
  { x \in RowChoices :
      /\ x[1] \in {"Organizations", "Programs", "PeopleOrg", "PeopleProgram"}
      /\ DOMAIN x[2] \cap {ExtraColumn, "usecaseMeat", "County"} = {} }

OrderRowLists == { s \in RowLists : \A i \in 1..Len(s) : s[i] \in OrderRowChoices }

InitOrder ==
  /\ pc = "order"
  /\ r = 0
  /\ \E s \in OrderRowLists : wb = Workbook(Terms, s)
  /\ dicts = <<>>
  /\ g = {}
  /\ out = <<>>
  /\ exc = ""
  /\ calls = <<>>
  /\ arg \in Orders
  /\ ret = <<>>

RunInOrder ==
  /\ pc = "order"
  /\ LET ds == BuildDicts(wb)
         m == IngestPasses(LabelledGraph(ds), wb, ds, arg)
     IN  /\ dicts' = ds
         /\ g' = m.g
         /\ out' = m.out
         /\ exc' = m.exc
         /\ calls' = m.calls
  /\ pc' = "handed"
  /\ UNCHANGED <<r, wb, arg, ret>>

NextOrder == RunInOrder

SpecOrder == InitOrder /\ [][NextOrder]_vars

(***************************************************************************)
(* creategraph over varying vocabulary lists and lookup files: the         *)
(* dictionaries and the two label steps as in Spec, the ingestion passes   *)
(* of lines 578-767 in one step.                                           *)
(***************************************************************************)
\* commodities.csv, read as (name, URI) rows (lines 485-488)
CommodityFrame(K, p) ==
  [columns |-> <<"commodity", "uri">>,
   rows |-> [k \in 1..Len(K) |-> << K[k], <<p>> \o K[k] >>]]

\* the vocabularies hold none, one or all of the terms
VocabLists == { SubSeq(Terms, 1, n) : n \in 0..Len(Terms) }

\* the commodity file has URIs of its own, or the URIs of the county file
CommodityUriHeads == {"M", "Q"}

InitLabels ==
  /\ pc = "dicts"
  /\ r = 0
  /\ \E K \in VocabLists, p \in CommodityUriHeads, s \in OrderRowLists :
       wb = ("commodities.csv" :> CommodityFrame(K, p)) @@ Workbook(K, s)
  /\ dicts = <<>>
  /\ g = {}
  /\ out = <<>>
  /\ exc = ""
  /\ calls = <<>>
  /\ arg = <<>>
  /\ ret = <<>>

\* lines 578-770: every pass in the source's order, then "return g"; an
\* exception leaves the run inside the passes
IngestAll ==
  /\ pc = "Organizations" /\ exc = ""
  /\ LET m == IngestPasses(Machine, wb, dicts, Passes)
     IN  /\ g' = m.g
         /\ out' = m.out
         /\ exc' = m.exc
         /\ calls' = m.calls
         /\ pc' = IF m.exc = "" THEN "done" ELSE pc
  /\ UNCHANGED <<r, wb, dicts, arg, ret>>

NextLabels ==
  \/ Vocabularies
  \/ VocabLabels
  \/ PredLabels
  \/ IngestAll

SpecLabels == InitLabels /\ [][NextLabels]_vars

(***************************************************************************)
(* creategraph over workbooks whose sheets of relations (people-orgs,      *)
(* people-proj, OrgProjGM) hold texts of one and two characters; the steps *)
(* are those of SpecLabels.                                                *)
(***************************************************************************)
tAB == <<"A", "B">>

tBC == <<"B", "C">>

tC == <<"C">>

RelationRowChoices ==
  { <<"PeopleOrg", "Full Name" :> x[1] @@ "Organization" :> x[2]
                   @@ "Position (Verbatim)" :> tR>> : x \in {tA, tAB} \X {tBC, tC} }
  \cup
  { <<"PeopleProj", "Full Name" :> x[1] @@ "Project" :> x[2] @@ "ProjRole" :> x[3]>> :
      x \in {tA, tAB} \X {tBC, tC} \X {tR, <<>>} }
  \cup
  { <<"OrgProjGM", "GM_Name" :> tA @@ "Relation" :> tA @@ "Organization" :> x[1]
                   @@ "OrgProjRelation" :> x[2] @@ "Project" :> tR>> :
      x \in {tA, tAB} \X {tBC, tC} }

RelationRowLists ==
  { s \in UNION { [1..n -> RelationRowChoices] : n \in 0..MaxRows } :
      \A i \in 1..Len(s), j \in 1..Len(s) :
        i < j => SheetIndex(s[i][1]) <= SheetIndex(s[j][1]) }

InitRelations ==
  /\ pc = "dicts"
  /\ r = 0
  /\ \E s \in RelationRowLists : wb = Workbook(Terms, s)
  /\ dicts = <<>>
  /\ g = {}
  /\ out = <<>>
  /\ exc = ""
  /\ calls = <<>>
  /\ arg = <<>>
  /\ ret = <<>>

SpecRelations == InitRelations /\ [][NextLabels]_vars

(***************************************************************************)
(* Properties.                                                             *)
(***************************************************************************)
\* the sheet that holds the entities of the class a reference prefix names
ReferencedSheet ==
  "org" :> "Organizations" @@ "prj" :> "Projects" @@ "prg" :> "Programs"
  @@ "per" :> "People" @@ "gmt" :> "Guidelines_Mandates" @@ "dts" :> "Datasets"

\* the nodes of the graph that a row of the sheet labelled t has minted
SubjectsOf(sheet, t) ==
  { tr[1] : tr \in { x \in g : /\ x[2] = rdfslabel
                               /\ x[3] = Literal(Str(t))
                               /\ <<x[1], rdftype, URIRef(Get(PPODrefs, sheet))>> \in g } }

\* the calls of addtriple that reference an entity class by name
ReferenceCalls ==
  { k \in 1..Len(calls) : /\ calls[k].prdetails[1] = "o"
                          /\ calls[k].prdetails[4] \in DOMAIN ReferencedSheet
                          /\ calls[k].raised = "" }

\* C1: identity-merge.  Once the run is over, the object that a reference
\* column has emitted for the name t is the subject that the row labelled t of
\* the referenced class's own sheet has minted, for every entity class.
C1_IdentityMerge ==
  pc = "done" =>
    \A k \in ReferenceCalls :
      \A i \in 1..Len(calls[k].celllist) :
        LET t == calls[k].celllist[i]
            sheet == ReferencedSheet[calls[k].prdetails[4]]
        IN  (\E j \in 1..shape0(wb[sheet]) : iloc(wb[sheet], j - 1, 0) = t)
              => calls[k].emitted[i][3] \in SubjectsOf(sheet, t)

\* the 24 low bits of a 32-bit word as six lowercase hexadecimal digits
Lower24Hex(w) == Str([k \in 1..6 |-> HexDigits[w[7 - k] + 1]])

\* C2: makeid(s) is the lower 24 bits of the CRC-32 of s in lowercase
\* hexadecimal, zero-padded to exactly 6 characters, for every s.
C2_Lower24Padded ==
  pc = "returned" => ret = Lower24Hex(crc32(encode(arg))) /\ Len(ret) = 6

\* the sheets of entities, each named as the pass that ingests it
StandardSheets ==
  {"Organizations", "Programs", "Projects", "People", "Guidelines_Mandates",
   "Datasets", "Tools"}

\* the columns of row i of a frame whose cell is not empty, from 1
FilledColumns(df, i) == { c \in 1..shape1(df) : iloc(df, i, c - 1) # <<>> }

\* the triples that the calls of a list have handed to the graph
EmittedBy(cs) == UNION { { cs[k].emitted[n] : n \in 1..Len(cs[k].emitted) } : k \in 1..Len(cs) }

\* C3: absence skip.  The step that ingests a row of a sheet of entities
\* calls addtriple for cells of that row that are not empty and for no other,
\* once for each of them when no exception ends the row, and adds to the
\* graph, besides the type and the label of the row, only what those calls
\* emit: an empty cell is not handed to addtriple and contributes no triple.
C3_AbsenceSkip ==
  [][ (pc \in StandardSheets /\ r < shape0(wb[pc])) =>
        LET df == wb[pc]
            new == SubSeq(calls', Len(calls) + 1, Len(calls'))
        IN  /\ \A k \in 1..Len(new) :
                 /\ new[k].cellval # <<>>
                 /\ new[k].site[1] = pc /\ new[k].site[2] = r
                 /\ \E c \in FilledColumns(df, r) :
                      /\ df.columns[c] = new[k].site[3]
                      /\ iloc(df, r, c - 1) = new[k].cellval
            /\ \A j, k \in 1..Len(new) : j # k => new[j].site # new[k].site
            /\ exc' = "" => Len(new) = Cardinality(FilledColumns(df, r))
            /\ \A t \in g' \ g : t[2] \in {rdftype, rdfslabel} \/ t \in EmittedBy(new)
    ]_vars

\* a row of a sheet of entities with empty cells has been ingested, and its
\* two filled cells, and they alone, have gone through addtriple
C3_Witness ==
  /\ pc = "Organizations" /\ r = 1 /\ exc = ""
  /\ Len(calls) = 2
  /\ Len(calls) = Cardinality(FilledColumns(wb["Organizations"], 0))
  /\ calls[2].site = <<"Organizations", 0, "County">>
  /\ Cardinality(FilledColumns(wb["Organizations"], 0)) < shape1(wb["Organizations"])
  /\ \E t \in g : t[2] = URIRef(Get(orgpred, "County")[2])

\* the pieces of a text between its commas, and a text without the blanks
\* around it
CommaPlaces(cs) == { i \in 1..Len(cs) : cs[i] = "," }

PieceAt(cs, n) ==
  LET before == { i \in CommaPlaces(cs) : Cardinality({ j \in CommaPlaces(cs) : j <= i }) = n - 1 }
      after == { i \in CommaPlaces(cs) : Cardinality({ j \in CommaPlaces(cs) : j <= i }) = n }
      lo == IF before = {} THEN 1 ELSE (CHOOSE i \in before : TRUE) + 1
      hi == IF after = {} THEN Len(cs) ELSE (CHOOSE i \in after : TRUE) - 1
  IN  SubSeq(cs, lo, hi)

Trimmed(cs) ==
  LET inked == { i \in 1..Len(cs) : cs[i] # " " }
  IN  IF inked = {} THEN <<>>
      ELSE SubSeq(cs, CHOOSE i \in inked : \A j \in inked : i <= j,
                      CHOOSE i \in inked : \A j \in inked : j <= i)

TrimmedPieces(cs) ==
  [n \in 1..(Cardinality(CommaPlaces(cs)) + 1) |-> Trimmed(PieceAt(cs, n))]

\* one value rendered on its own, by the rule of the kind of the descriptor
Rendered(prdetails, value) ==
  CellBody([g |-> {}, out |-> <<>>, obj |-> Unbound, exc |-> "",
            emitted |-> <<>>, printed |-> <<>>],
           prdetails, URIRef(EmitSubject), value, tA, dicts)

RECURSIVE EmittedOf(_, _)
EmittedOf(prdetails, values) ==
  IF values = <<>> THEN <<>>
  ELSE Rendered(prdetails, values[1]).emitted \o EmittedOf(prdetails, Tail(values))

RECURSIVE PrintedOf(_, _)
PrintedOf(prdetails, values) ==
  IF values = <<>> THEN <<>>
  ELSE Rendered(prdetails, values[1]).printed \o PrintedOf(prdetails, Tail(values))

\* the cell is the wildcard of a county or ecoregion column
Wildcard ==
  arg.cellval = All /\ arg.prdetails[4] \in {"countydict", "ecoregiondict"}

\* C4: multiplicity splitting.  A call of addtriple with a descriptor of
\* multiplicity 'm' and a cell of n pieces between commas (the wildcard
\* apart) renders n values, the pieces in order with the blanks around them
\* trimmed, each as it is rendered on its own: n emissions, a triple or a
\* line each.  With multiplicity 's' the whole cell, commas included, is the
\* one value rendered.
C4_MultiplicitySplitting ==
  (pc = "returned" /\ ~ Wildcard) =>
    LET c == calls[1]
        n == Cardinality(CommaPlaces(arg.cellval)) + 1
    IN  /\ arg.prdetails[5] = "m" =>
             /\ c.celllist = TrimmedPieces(arg.cellval)
             /\ Len(c.celllist) = n
             /\ exc = ""
             /\ c.emitted = EmittedOf(arg.prdetails, TrimmedPieces(arg.cellval))
             /\ c.printed = PrintedOf(arg.prdetails, TrimmedPieces(arg.cellval))
             /\ Len(c.emitted) + Len(c.printed) = n
             /\ g = { c.emitted[k] : k \in 1..Len(c.emitted) }
             /\ out = c.printed
        /\ arg.prdetails[5] = "s" =>
             /\ c.celllist = <<arg.cellval>>
             /\ exc = Rendered(arg.prdetails, arg.cellval).exc
             /\ c.emitted = Rendered(arg.prdetails, arg.cellval).emitted
             /\ c.printed = Rendered(arg.prdetails, arg.cellval).printed
             /\ g = { c.emitted[k] : k \in 1..Len(c.emitted) }
             /\ out = c.printed

\* a cell of two pieces with blanks around one of them has gone through a
\* descriptor of multiplicity 'm': two values, trimmed, two emissions
C4_Witness ==
  /\ pc = "returned"
  /\ arg.prdetails[5] = "m"
  /\ arg.cellval = <<"A", ",", " ", "Z", " ">>
  /\ calls[1].celllist = <<tA, tZ>>
  /\ Len(calls[1].emitted) + Len(calls[1].printed) = 2

\* C5: wildcard expansion.  A call of addtriple with a vocabulary descriptor
\* of the county or the ecoregion dictionary and the cell "All" adds the
\* triple (subject, predicate, dictionary[k]) for every key k of the
\* dictionary and nothing else, and prints no line; with a vocabulary
\* descriptor of another dictionary "All" is rendered as any value is.
C5_WildcardExpansion ==
  (pc = "returned" /\ arg.prdetails[1] = "v" /\ arg.cellval = All) =>
    IF arg.prdetails[4] \in {"countydict", "ecoregiondict"}
    THEN LET d == dicts[arg.prdetails[4]]
         IN  /\ g = { <<URIRef(EmitSubject), URIRef(arg.prdetails[2]), URIRef(d[i][2])>> :
                      i \in 1..Len(d) }
             /\ out = <<>>
             /\ exc = ""
    ELSE /\ calls[1].celllist = <<All>>
         /\ calls[1].emitted = Rendered(arg.prdetails, All).emitted
         /\ out = Rendered(arg.prdetails, All).printed
         /\ exc = ""

\* C6: use-case flag.  A call of addtriple with the descriptor of a use-case
\* column and the cell "X" or "x" adds exactly one triple, whose predicate is
\* the generic use-case predicate and whose object is the URI that the
\* usecases table records for the column.
C6_UseCaseFlag ==
  (/\ pc = "returned"
   /\ arg.prdetails[1] = "d"
   /\ HasKey(usecases, arg.colname)
   /\ arg.cellval \in {<<"X">>, <<"x">>}) =>
    g = { <<URIRef(EmitSubject), URIRef(fslsprefix \o "usecase"),
            URIRef(Get(usecases, arg.colname)[1])>> }

\* the values of a call that the dictionary of the descriptor holds, and
\* those it does not
Hits(c) ==
  SelectSeq(c.celllist, LAMBDA v : HasKey(dicts[c.prdetails[4]], v))

Misses(c) ==
  SelectSeq(c.celllist, LAMBDA v : ~ HasKey(dicts[c.prdetails[4]], v))

\* C7: vocabulary-miss isolation.  A call of addtriple with a vocabulary
\* descriptor raises nothing, prints for each value that its dictionary does
\* not hold the one line "<label>: <value> not in <dictionary>", in order,
\* and adds the triples of the values the dictionary holds and no other: the
\* graph is the one the call yields for the cell without the missing values,
\* and the empty one when no value is left.
C7_MissIsolation ==
  (pc = "returned" /\ arg.prdetails[1] = "v") =>
    LET c == calls[1]
        d == dicts[arg.prdetails[4]]
        misses == Misses(c)
        hits == Hits(c)
    IN  /\ exc = ""
        /\ out = [k \in 1..Len(misses) |->
                    Str(tA) \o ": " \o Str(misses[k]) \o " not in " \o arg.prdetails[4]]
        /\ g = { <<URIRef(EmitSubject), URIRef(arg.prdetails[2]), URIRef(Get(d, hits[k]))>> :
                 k \in 1..Len(hits) }
        /\ g = IF hits = <<>> THEN {}
               ELSE addtriple([g |-> {}, out |-> <<>>, exc |-> "", calls |-> <<>>],
                              arg.prdetails, EmitSubject, Join(hits), tA, dicts,
                              <<"call", 0, arg.colname>>).g

\* a cell with a value the dictionary holds and one it does not has gone
\* through a vocabulary descriptor: one triple, one line
C7_Witness ==
  /\ pc = "returned"
  /\ arg.prdetails[1] = "v"
  /\ Len(Hits(calls[1])) = 1
  /\ Len(Misses(calls[1])) = 1
  /\ calls[1].celllist = <<tZ, tA>>
  /\ Cardinality(g) = 1
  /\ Len(out) = 1

\* the passes that follow the pass of a sheet
PassesAfter(sheet) ==
  { Sheets[j] : j \in (SheetIndex(sheet) + 1)..Len(Sheets) }
  \cup (IF SheetIndex(sheet) <= SheetIndex("People") THEN {"Role"} ELSE {})
  \cup {"return", "done"}

\* the rows of a sheet whose ingestion has begun, from 0: those of a pass
\* that is over, the rows before the current one of the running pass, and
\* the current one when an exception has ended the run in it
RowsBegun(sheet) ==
  IF pc \in PassesAfter(sheet) THEN 0..(shape0(wb[sheet]) - 1)
  ELSE IF pc = sheet
  THEN { i \in 0..(shape0(wb[sheet]) - 1) : i < r \/ (i = r /\ exc # "") }
  ELSE {}

\* the rows of a sheet that have been ingested to their end
RowsDone(sheet) ==
  IF pc \in PassesAfter(sheet) THEN 0..(shape0(wb[sheet]) - 1)
  ELSE IF pc = sheet THEN { i \in 0..(shape0(wb[sheet]) - 1) : i < r }
  ELSE {}

\* the nodes of type Role with the label t
RolesLabelled(t) ==
  { x[1] : x \in { y \in g : /\ y[2] = rdfslabel
                            /\ y[3] = Literal(Str(t))
                            /\ <<y[1], rdftype, RoleClass>> \in g } }

\* C8: default role text.  Once a people-orgs row whose Position (Verbatim)
\* and Position (Type) cells are both empty has been ingested, the graph
\* holds the Role node of the row with the rdfs:label "Unstated role".
C8_DefaultRoleLabel ==
  \A i \in RowsDone("PeopleOrg") :
    LET df == wb["PeopleOrg"]
    IN  (iloc(df, i, 2) = <<>> /\ iloc(df, i, 3) = <<>>) =>
          \E n \in RolesLabelled(UnstatedRole) :
            <<n, URIRef(Get(personorgpred, "Full Name")[2]),
              URIRef(auxprefix \o "per_" \o makeid(iloc(df, i, 0)))>> \in g

\* the default texts the passes have for a missing role
DefaultRoleTexts ==
  "PeopleOrg" :> {UnstatedRole} @@ "PeopleProj" :> {UnstatedRole, Participant}

\* C9: the default role text enters the Role hash.  Once a people-orgs or
\* people-proj row without role text has been ingested, the graph holds, for
\* a default text D of the pass, the node
\* auxprefix + "rol_" + makeid(person + target + D) with the type Role and
\* the label D.
C9_DefaultBeforeHash ==
  \A sheet \in DOMAIN DefaultRoleTexts :
    \A i \in RowsDone(sheet) :
      LET df == wb[sheet]
      IN  (iloc(df, i, 2) = <<>> /\ (sheet = "PeopleOrg" => iloc(df, i, 3) = <<>>)) =>
            \E D \in DefaultRoleTexts[sheet] :
              URIRef(auxprefix \o "rol_" \o makeid(iloc(df, i, 0) \o iloc(df, i, 1) \o D))
                \in RolesLabelled(D)

\* the prefix of the class of each sheet of entities
ClassPrefix ==
  "Organizations" :> "org" @@ "Programs" :> "prg" @@ "Projects" :> "prj"
  @@ "People" :> "per" @@ "Guidelines_Mandates" :> "gmt" @@ "Datasets" :> "dat"
  @@ "Tools" :> "tol"

\* C10: every row of a sheet of entities whose ingestion has begun has its
\* type and its label in the graph, on the subject
\* auxprefix + prefix + "_" + makeid(label), whatever its other cells hold
\* and whether or not their processing has raised.
C10_TypeAndLabel ==
  \A sheet \in StandardSheets :
    \A i \in RowsBegun(sheet) :
      LET label == iloc(wb[sheet], i, 0)
          S == URIRef(auxprefix \o ClassPrefix[sheet] \o "_" \o makeid(label))
      IN  /\ <<S, rdftype, URIRef(Get(PPODrefs, sheet))>> \in g
          /\ <<S, rdfslabel, Literal(Str(label))>> \in g

\* the processing of the columns of an organization has raised, and the type
\* and the label of the organization are in the graph
C10_Witness ==
  /\ pc = "Organizations" /\ r = 0
  /\ exc = "UnboundLocalError"
  /\ RowsBegun("Organizations") = {0}
  /\ <<URIRef(auxprefix \o "org_" \o makeid(tA)), rdfslabel, Literal("A")>> \in g
  /\ <<URIRef(auxprefix \o "org_" \o makeid(tA)), rdftype,
       URIRef(Get(PPODrefs, "Organizations"))>> \in g

\* the predicate dictionary that the pass of a sheet looks its columns up in
SchemaOf ==
  "Organizations" :> orgpred @@ "Programs" :> progpred @@ "Projects" :> projpred
  @@ "People" :> personpred @@ "PeopleOrg" :> personorgpred
  @@ "PeopleProj" :> personprojpred @@ "PeopleProgram" :> personprogrampred
  @@ "Guidelines_Mandates" :> guidelinespred @@ "Datasets" :> datasetpred
  @@ "Tools" :> toolpred

\* the columns of a sheet of the workbook without an entry in its dictionary
UnknownColumns(sheet) ==
  { wb[sheet].columns[c] : c \in 1..shape1(wb[sheet]) }
  \ { SchemaOf[sheet][k][1] : k \in 1..Len(SchemaOf[sheet]) }

\* the lines printed so far that are neither a diagnostic of addtriple nor
\* the trace of the people-orgs pass
OtherLines ==
  { out[k] : k \in 1..Len(out) }
  \ (UNION { { calls[k].printed[n] : n \in 1..Len(calls[k].printed) } : k \in 1..Len(calls) }
     \cup {"empty string"})

\* C11: configuration error.  For a sheet with a column that its predicate
\* dictionary has no entry for, whatever the cells of the column hold: once
\* the pass of the sheet is over an error has been reported for it, and the
\* error does not end the run in that pass (no KeyError escapes it).
C11_ConfigurationError ==
  \A sheet \in DOMAIN SchemaOf :
    UnknownColumns(sheet) # {} =>
      /\ pc \in PassesAfter(sheet) => OtherLines # {}
      /\ pc = sheet => exc # "KeyError"

\* the rows of the OrgGM sheet whose relation is not a key of orggmpred
UnknownRelationRows ==
  { i \in 0..(shape0(wb["OrgGM"]) - 1) :
      ~ HasKey(orggmpred, Str(iloc(wb["OrgGM"], i, 1))) }

\* C12: malformed relation name.  An OrgGM row whose relation is not a key of
\* orggmpred does not end the run: once its ingestion has begun no exception
\* is pending, the row has been reported, and it has added no triple from
\* its organization to its guideline.
C12_MalformedRelation ==
  \A i \in UnknownRelationRows \cap RowsBegun("OrgGM") :
    /\ exc = ""
    /\ OtherLines # {}
    /\ ~ \E t \in g :
           /\ t[1] = URIRef(auxprefix \o "org_" \o makeid(iloc(wb["OrgGM"], i, 0)))
           /\ t[3] = URIRef(auxprefix \o "gmt_" \o makeid(iloc(wb["OrgGM"], i, 2)))

\* every column of every sheet has an entry in the dictionary of its pass
AllColumnsKnown == \A sheet \in DOMAIN SchemaOf : UnknownColumns(sheet) = {}

\* C13: failure isolation.  When every column has its entry, no cell and no
\* row ends the run: no exception is ever pending, whatever the cells hold.
C13_FailureIsolation == AllColumnsKnown => exc = ""

\* the run of the passes in the order of the source
SourceOrderRun == IngestPasses(LabelledGraph(dicts), wb, dicts, Passes)

\* C14: the order of the passes is insignificant.  When the passes in the
\* order of the source raise nothing, the passes in any order raise nothing
\* and hand off the same graph.
C14_OrderInsignificant ==
  (pc = "handed" /\ SourceOrderRun.exc = "") =>
    /\ exc = ""
    /\ g = SourceOrderRun.g

\* a program that names an organization has been ingested before the
\* organization, in the reverse of the order of the source, and the graph
\* handed off is that of the order of the source
C14_Witness ==
  /\ pc = "handed"
  /\ arg = Reverse(Passes)
  /\ shape0(wb["Organizations"]) = 1
  /\ shape0(wb["Programs"]) = 1
  /\ \E c \in 1..shape1(wb["Programs"]) :
       /\ wb["Programs"].columns[c] = "Organization"
       /\ iloc(wb["Programs"], 0, c - 1) = iloc(wb["Organizations"], 0, 0)
  /\ exc = ""
  /\ g = SourceOrderRun.g
  /\ <<URIRef(auxprefix \o "org_" \o makeid(tA)), rdfslabel, Literal("A")>> \in g

\* C15: from the end of the vocabulary-label step on, and in the graph handed
\* off, every entry (term, uri) of every vocabulary dictionary has its triple
\* (uri, rdfs:label, Literal(term)); the term carries " County" for the
\* entries of countydict and of no other dictionary.
LabelOf(name, term) ==
  Literal(Str(IF name = "countydict" THEN term \o County ELSE term))

UnlabelledEntries ==
  UNION { { <<n, dicts[n][i][1]>> :
              i \in { j \in 1..Len(dicts[n]) :
                        <<URIRef(dicts[n][j][2]), rdfslabel,
                          LabelOf(n, dicts[n][j][1])>> \notin g } } :
          n \in DOMAIN dicts }

C15_VocabularyLabels ==
  pc \in {"predlabels", "Organizations", "done"} => UnlabelledEntries = {}

\* C16: the graph starts empty; every step of the run keeps every triple of
\* the graph, and the triples emitted by the calls of addtriple made in the
\* step are in the graph after it; a step that ingests a row equal to the row
\* before it, whose triples are all present, leaves the graph as it was.
RepeatedRow ==
  /\ pc \in DOMAIN wb
  /\ r >= 1
  /\ r < shape0(wb[pc])
  /\ wb[pc].rows[r + 1] = wb[pc].rows[r]

C16_AppendOnly ==
  /\ g = {}
  /\ [][ /\ g \subseteq g'
         /\ \A k \in (Len(calls) + 1)..Len(calls') :
              \A n \in 1..Len(calls'[k].emitted) : calls'[k].emitted[n] \in g'
         /\ RepeatedRow => g' = g ]_vars

C16_Witness ==
  /\ pc = "Organizations"
  /\ r = 2
  /\ wb[pc].rows[1] = wb[pc].rows[2]
  /\ Len(calls) = 4
  /\ calls[2].emitted # <<>>
  /\ calls[4].emitted = calls[2].emitted
  /\ \A n \in 1..Len(calls[4].emitted) : calls[4].emitted[n] \in g

\* C17: when the first ingestion step begins every vocabulary dictionary is
\* built (all sixteen exist and hold every term their sheet or file lists),
\* and no step after the construction (label steps, rows, ends of passes,
\* the calls of addtriple in them, wildcard cells included) changes a
\* dictionary.  The predicate schemas are constants of the module.
VocabularyColumnOf ==
  <<"orgtypedict", "OrgType">> :> 0 @@ <<"orgactivitydict", "OrgActivity">> :> 0
  @@ <<"projtypedict", "ProjType">> :> 0 @@ <<"progtypedict", "ProgType">> :> 0
  @@ <<"gmtypedict", "GMType">> :> 0 @@ <<"govleveldict", "GovLevel">> :> 0
  @@ <<"positiontypedict", "PositionType">> :> 0
  @@ <<"projroledict", "PeopleProjRole">> :> 0
  @@ <<"orggmrelationdict", "orgGMRelation">> :> 0
  @@ <<"orgprojrelationdict", "orgProjRelation">> :> 0
  @@ <<"geofeaturedict", "GeoFeature">> :> 0
  @@ <<"ecoregiondict", "Ecoregion_USDA">> :> 1

FileColumnOf ==
  <<"issuedict", "Issues (Integrated)">> :> 2
  @@ <<"issuedict", "Issues (Component)">> :> 2
  @@ <<"countydict", "CACounties_WD.csv">> :> 2
  @@ <<"commoditydict", "commodities.csv">> :> 1
  @@ <<"habtypedict", "CWHR_Habitat_Lookup_Table.csv">> :> 1

ListedTerms(name) ==
  UNION { { wb["Vocabularies"].rows[i][CHOOSE c \in 1..Len(VocabColumns) :
                                         VocabColumns[c] = x[2]] :
              i \in (1 + VocabularyColumnOf[x])..shape0(wb["Vocabularies"]) } \ {<<>>} :
          x \in { y \in DOMAIN VocabularyColumnOf : y[1] = name } }
  \cup
  UNION { { wb[x[2]].rows[i][FileColumnOf[x]] : i \in 1..shape0(wb[x[2]]) } :
          x \in { y \in DOMAIN FileColumnOf : y[1] = name } }

FullyBuilt ==
  /\ DOMAIN dicts = { LabelledDicts[i] : i \in 1..Len(LabelledDicts) }
  /\ \A name \in DOMAIN dicts : \A t \in ListedTerms(name) : HasKey(dicts[name], t)

C17_DictionariesReadOnly ==
  [][ /\ pc' # "dicts" => FullyBuilt'
      /\ pc # "dicts" => dicts' = dicts ]_vars

C17_Witness ==
  /\ pc = "Programs"
  /\ exc = ""
  /\ \E k \in 1..Len(calls) :
       /\ calls[k].cellval = All
       /\ Len(calls[k].emitted) = Len(dicts["countydict"])
  /\ Len(dicts["countydict"]) = Len(Terms)
  /\ FullyBuilt

\* C18: in every predicate schema every descriptor has a non-empty refTarget
\* (its fourth component) if and only if its kind is 'o' or 'v'; so has every
\* descriptor that the run has handed to addtriple.
RefTargetGiven(prdetails) == Len(prdetails) >= 4 /\ prdetails[4] # ""

IllFormedDescriptors ==
  UNION { { <<k, predsbyclasslist[k][i][1]>> :
              i \in { j \in 1..Len(predsbyclasslist[k]) :
                        RefTargetGiven(predsbyclasslist[k][j][2])
                          # (predsbyclasslist[k][j][2][1] \in {"o", "v"}) } } :
          k \in 1..Len(predsbyclasslist) }

C18_DescriptorInvariant ==
  /\ IllFormedDescriptors = {}
  /\ \A k \in 1..Len(calls) :
       RefTargetGiven(calls[k].prdetails) = (calls[k].prdetails[1] \in {"o", "v"})

\* C19: a call of addtriple emits no triple whose object is built from an
\* empty value: the empty literal, the empty URI or the URI minted from the
\* hash of the empty text; a cell such as "A," or "A,,B" of a column that
\* holds several values emits the triples of its non-empty values only.
EmptyValueObjects(prdetails) ==
  { Literal(""), URIRef(""),
    URIRef(auxprefix \o prdetails[4] \o "_" \o makeid(<<>>)) }

NonEmptyValues(c) == { n \in 1..Len(c.celllist) : c.celllist[n] # <<>> }

C19_EmptyNeverEmitted ==
  pc = "returned" =>
    \A k \in 1..Len(calls) :
      /\ \A n \in 1..Len(calls[k].emitted) :
           calls[k].emitted[n][3] \notin EmptyValueObjects(calls[k].prdetails)
      /\ Len(calls[k].emitted) <= Cardinality(NonEmptyValues(calls[k]))

\* C20: a call of addtriple with the literal descriptor of a use-case column
\* and a value that is neither "X" nor "x" returns without an exception and
\* adds exactly the triple (subject, predicate URI of the column, Literal(value)).
C20_UseCaseOtherValue ==
  (/\ pc = "returned"
   /\ arg.prdetails[1] = "d"
   /\ ContainsUsecase(arg.prdetails[2])
   /\ calls[1].celllist = <<arg.cellval>>
   /\ arg.cellval \notin {<<"X">>, <<"x">>}) =>
    /\ exc = ""
    /\ g = { <<URIRef(EmitSubject), URIRef(arg.prdetails[2]),
               Literal(Str(arg.cellval))>> }

\* the Role node that the person, target and role cells of row i of a sheet
\* of relations give
OwnRoleNode(sheet, i) ==
  URIRef(auxprefix \o "rol_"
         \o makeid(iloc(wb[sheet], i, 0) \o iloc(wb[sheet], i, 1) \o iloc(wb[sheet], i, 2)))

\* C21: once a row of the people-program sheet has been ingested, the node
\* minted from the person, program and role cells of that row has the type
\* Role and the role cell of the row as its rdfs:label, and every call of
\* addtriple for a column of the row has that node as its subject.
C21_ProgramRoleFromOwnRow ==
  \A i \in RowsDone("PeopleProgram") :
    /\ OwnRoleNode("PeopleProgram", i) \in RolesLabelled(iloc(wb["PeopleProgram"], i, 2))
    /\ \A k \in 1..Len(calls) :
         (calls[k].site[1] = "PeopleProgram" /\ calls[k].site[2] = i) =>
           calls[k].subj = OwnRoleNode("PeopleProgram", i)

\* the class prefixes with which the passes mint subjects (lines 580-760)
MintedPrefixes == {"org", "prj", "prg", "per", "gmt", "dat", "tol", "rol"}

\* the columns of the schemas handed to addtriple whose refTarget is neither
\* a minted class prefix ('o') nor the name of a built dictionary ('v')
IllTypedColumns ==
  { col \in EmitterColumns :
      \/ col[2][1] = "o" /\ col[2][4] \notin MintedPrefixes
      \/ col[2][1] = "v" /\ col[2][4] \notin DOMAIN dicts }

\* C22: once the dictionaries are built, in every schema handed to addtriple
\* the refTarget of every 'o' descriptor is a class prefix with which subjects
\* are minted, and the refTarget of every 'v' descriptor names a dictionary
\* that has been built.
C22_RefTargetWellTyped ==
  pc # "dicts" => IllTypedColumns = {}

\* the (person or organization, target, role) cells of the rows of a sheet
\* of relations: the first three cells of a people-orgs or people-proj row,
\* the third to fifth of an OrgProjGM row
RoleFields(sheet) ==
  LET c == IF sheet = "OrgProjGM" THEN 2 ELSE 0
  IN  { <<iloc(wb[sheet], i, c), iloc(wb[sheet], i, c + 1), iloc(wb[sheet], i, c + 2)>> :
          i \in 0..(shape0(wb[sheet]) - 1) }

\* the role strings under which the rows of a sheet have called addtriple
RoleStrings(sheet) ==
  { calls[k].subjectstr : k \in { n \in 1..Len(calls) : calls[n].site[1] = sheet } }

\* the nodes of type Role
RoleNodes == { t[1] : t \in { x \in g : x[2] = rdftype /\ x[3] = RoleClass } }

\* C23: in the graph handed off, the rows of a sheet of relations that differ
\* in their (person, target, role) cells are keyed by different role strings,
\* and there are as many Role nodes as there are different combinations of
\* these cells.
C23_RoleIdentityInjective ==
  pc = "done" =>
    /\ \A sheet \in {"PeopleOrg", "PeopleProj"} :
         Cardinality(RoleStrings(sheet)) = Cardinality(RoleFields(sheet))
    /\ Cardinality(RoleNodes) >=
         Cardinality(RoleFields("PeopleOrg") \cup RoleFields("PeopleProj")
                     \cup RoleFields("OrgProjGM"))

\* C24: the people-program pass never ends in an out-of-range row access,
\* whatever the numbers of rows of the people-program and people-orgs sheets:
\* no row of it raises IndexError, so that the run goes on to the guidelines.
C24_PeopleProgramCompletes ==
  pc = "PeopleProgram" => exc # "IndexError"

\* the calls of addtriple for the role column of row i of the people-proj sheet
ProjRoleCalls(i) ==
  { k \in 1..Len(calls) : calls[k].site = <<"PeopleProj", i, "ProjRole">> }

\* C25: once a row of the people-proj sheet has been ingested, its role
\* column has emitted a has-role literal, and the text of every such literal
\* is the rdfs:label of the Role node of the row and the text hashed, after
\* the person and the project, into the URI of that node; also when the role
\* cell is empty and a default stands in for it.
C25_ProjRoleTextAgrees ==
  \A i \in RowsDone("PeopleProj") :
    /\ \E k \in ProjRoleCalls(i) : calls[k].emitted # <<>>
    /\ \A k \in ProjRoleCalls(i) :
         \A n \in 1..Len(calls[k].emitted) :
           /\ <<calls[k].subj, rdfslabel, calls[k].emitted[n][3]>> \in g
           /\ calls[k].emitted[n][3] = Literal(Str(calls[k].cellval))
           /\ calls[k].subj =
                URIRef(auxprefix \o "rol_"
                       \o makeid(iloc(wb["PeopleProj"], i, 0)
                                 \o iloc(wb["PeopleProj"], i, 1) \o calls[k].cellval))

====
